---- MODULE Spec2Model ----
(***************************************************************************)
(* Model of the webtx_mcp Key Manager (src/webtx_mcp/key_manager.py) over   *)
(* its SQLite store (src/webtx_mcp/db.py).                                  *)
(*                                                                          *)
(* Time is counted in ticks of 1/TicksPerSecond second, so that the         *)
(* difference between Python's datetime comparison (full resolution) and    *)
(* SQLite's datetime() (whole seconds) is visible.  The calendar is         *)
(* simplified to months of 30 days; the local clock and CURRENT_TIMESTAMP   *)
(* are taken to be in the same time zone.                                   *)
(*                                                                          *)
(* Every Key Manager method is one action: the callers in this repository   *)
(* (gemini_client.py, server.py) invoke the methods synchronously from      *)
(* coroutines of one event loop, so a method runs to completion before the  *)
(* next one starts, while different callers' select/report pairs interleave.*)
(*                                                                          *)
(* The last sections model what surrounds the Key Manager: the store's      *)
(* connection (db.py), the research job store and the research tools        *)
(* (research_jobs.py, server.py) and the upstream-call wrapper              *)
(* (gemini_client.py).                                                      *)
(***************************************************************************)
EXTENDS Integers, Sequences, FiniteSets, TLC

VARIABLES
    api_keys,       \* table api_keys: id -> row
    seq,            \* sqlite_sequence of api_keys (AUTOINCREMENT high-water mark)
    api_usage_log,  \* table api_usage_log, in insertion order
    now,            \* the wall clock, in ticks
    env_key,        \* os.getenv("GOOGLE_API_KEY"), "" when unset
    ret,            \* the last call and what it returned
    master_key_file, \* the file ~/.webtx_mcp/.master_key
    instance,       \* KeyManager._instance: None, or the object it refers to
    instance_lock,  \* KeyManager._instance_lock: the thread holding it, or Free
    objects,        \* the KeyManager objects created: object -> its attributes
    threads,        \* the concurrent callers: caller -> position and locals
    connection,     \* DB._connection: None, or the connection it refers to
    connections,    \* the connections sqlite3.connect opened and nobody closed
    research_jobs,  \* table research_jobs: interaction_id -> row
    files,          \* the output files written: path -> text and number of writes
    trace           \* coroutine -> what its last upstream-call wrapper did, in order

\* what the callers share beyond the database and the master key file
concurrent == <<instance, instance_lock, objects, threads>>

\* the store's connection, the research jobs and the upstream-call wrapper
tools == <<connection, connections, research_jobs, files, trace>>

vars == <<api_keys, seq, api_usage_log, now, env_key, ret, master_key_file,
          instance, instance_lock, objects, threads,
          connection, connections, research_jobs, files, trace>>

-----------------------------------------------------------------------------
(* Program constants *)

STATUS_ACTIVE == "active"
STATUS_SUSPENDED == "suspended"
STATUS_DISABLED == "disabled"

MAX_CONSECUTIVE_FAILURES == 5
SUSPENSION_DURATION_MINUTES == 15
UNLIMITED_DIVISOR == 1000000

\* SQL NULL / Python None in a timestamp column
NULL == -1

-----------------------------------------------------------------------------
(* Bounds of the model *)

TicksPerSecond == 2     \* clock resolution below one second
MaxIds == 1             \* Spec: inserts stop once this many ids were assigned
MaxLog == 2             \* Spec: reports stop once the log holds this many events
MaxLogBreaker == 7      \* SpecBreaker: the same cut-off for its single credential
MaxIdsAdmin == 2        \* SpecAdmin: inserts stop once this many ids were assigned
MaxLogAdmin == 2        \* SpecAdmin: reports stop once the log holds this many events
MaxLogClassify == 2     \* SpecClassify: the same cut-off
MaxCallers == 2         \* SpecMasterKey: processes sharing the home directory
MaxLogRatio == 3        \* SpecRatio: events in api_usage_log
MaxLogCalendar == 3     \* SpecCalendar: events in api_usage_log
MaxReporters == 2       \* SpecReports: threads sharing the manager
MaxThreads == 2         \* SpecSingleton: threads constructing the manager
MaxCalls == 3           \* SpecReports: reports made by all of them together
MaxLogMidnight == 2     \* SpecMidnight: reports made on the second day
MaxOpeners == 3         \* SpecConnection: threads asking for the connection
MaxJobs == 2            \* SpecResearch: interaction ids the upstream hands out
MaxLogJobs == 3         \* SpecResearch: upstream calls reported to the key manager
MaxCoroutines == 1      \* SpecWrapper: coroutines of the event loop calling the upstream
MaxLogWrapper == 3      \* SpecWrapper: no wrapper starts once this many reports were made

-----------------------------------------------------------------------------
(* Clock and calendar *)

TicksPerDay == 24 * 60 * 60 * TicksPerSecond
TicksPerMonth == 30 * TicksPerDay
Cooldown == SUSPENSION_DURATION_MINUTES * 60 * TicksPerSecond

\* timedelta(minutes=SUSPENSION_DURATION_MINUTES) added to now
SuspendedUntil(t) == t + Cooldown

\* SQLite datetime(x): the timestamp cut to whole seconds
SqlDatetime(t) == t \div TicksPerSecond
\* SQLite date(x)
SqlDate(t) == t \div TicksPerDay
\* SQLite strftime('%Y-%m', x)
SqlMonth(t) == t \div TicksPerMonth
\* SQLite CURRENT_TIMESTAMP: whole seconds
CurrentTimestamp(t) == (t \div TicksPerSecond) * TicksPerSecond

\* The first instant of the model: the last tick of a second.
T0 == TicksPerSecond - 1

\* The instants at which the clock is read.
Instants ==
    { T0,
      T0 + Cooldown - 1,          \* less than a second before T0 + 15 min
      T0 + Cooldown }             \* T0 + 15 min

\* The same, with the next day and the next month.
CalendarInstants == Instants \cup {T0 + TicksPerDay, T0 + TicksPerMonth}

-----------------------------------------------------------------------------
(* Secrets, hashing, encryption *)

\* no stripping at all
Strip_None(key) == key

\* str.strip() on the modelled secrets
Strip(key) ==
    CASE key = " s1 " -> "s1"
      [] key = "   " -> ""
      [] OTHER -> key

\* sha256(key).hexdigest(): injective on the modelled secrets
HashKey(key) == <<"sha256", key>>

\* _MASTER_KEY_PATH before it is created, and with the bytes and the
\* permission bits it has once it exists
NoFile == [exists |-> FALSE, bytes |-> "", mode |-> "none"]
File(bytes, mode) == [exists |-> TRUE, bytes |-> bytes, mode |-> mode]

\* Fernet.generate_key(): 32 random bytes; two generations never give the
\* same key, so a key is named after the caller that generated it
GenerateKey(who) == "key-of-" \o who

\* _get_or_create_master_key run in one piece by the server: what it leaves
\* in the file, and what it returns
MasterKeyFile ==
    IF master_key_file.exists THEN master_key_file
    ELSE File(GenerateKey("server"), "0600")

MasterKey == MasterKeyFile.bytes

\* the secrets the model stores
Secrets == {"s1", "s2", "s3"}

\* Encrypt_Plain stores the secret as it is
Encrypt_Plain(master_key, plaintext) == plaintext

\* Fernet(master_key).encrypt(plaintext).decode(): a token, which is text
\* beginning with the version byte "gAAAA" and is bound to the key it was
\* made with.  (The token's timestamp and IV are left out: no secret is
\* encrypted twice, key_hash being UNIQUE.)
Encrypt(master_key, plaintext) == "gAAAA[" \o master_key \o "|" \o plaintext \o "]"

\* Fernet(master_key).decrypt(stored), and stored itself when that raises:
\* stored is no token, or a token of another key, or master_key is no key
Decrypt(master_key, stored) ==
    IF master_key # "" /\ \E plaintext \in Secrets : stored = Encrypt(master_key, plaintext)
    THEN CHOOSE plaintext \in Secrets : stored = Encrypt(master_key, plaintext)
    ELSE stored

\* _encrypt_key / _decrypt_key under the master key of the installation
EncryptKey(plaintext) == Encrypt(MasterKey, plaintext)
DecryptKey(stored) == Decrypt(MasterKey, stored)

-----------------------------------------------------------------------------
(* APIKey *)

NewRow(key, name, monthly_limit, daily_limit, t) ==
    [ key_hash |-> HashKey(key),
      encrypted_key |-> EncryptKey(key),
      name |-> name,
      monthly_limit |-> monthly_limit,
      daily_limit |-> daily_limit,
      usage_count |-> 0,
      daily_usage |-> 0,
      total_usage |-> 0,
      status |-> STATUS_ACTIVE,
      suspended_until |-> NULL,
      consecutive_failures |-> 0,
      last_used_at |-> NULL,
      last_reset_at |-> CurrentTimestamp(t) ]

\* usage_ratio_UnlimitedZero ranks an unlimited credential as unused
usage_ratio_UnlimitedZero(row) ==
    IF row.monthly_limit = 0
    THEN <<0, UNLIMITED_DIVISOR>>
    ELSE <<row.usage_count, row.monthly_limit>>

\* APIKey.usage_ratio as a fraction <<numerator, denominator>>
usage_ratio(row) ==
    IF row.monthly_limit = 0
    THEN <<row.usage_count, UNLIMITED_DIVISOR>>
    ELSE <<row.usage_count, row.monthly_limit>>

\* r1 < r2 for fractions with positive denominators
RatioLess(r1, r2) == r1[1] * r2[2] < r2[1] * r1[2]

\* is_available with the monthly quota compared by > instead of >=
is_available_QuotaOffByOne(row, t) ==
    IF row.status = STATUS_DISABLED THEN FALSE
    ELSE IF row.status = STATUS_SUSPENDED
            /\ row.suspended_until # NULL /\ t < row.suspended_until THEN FALSE
    ELSE IF row.monthly_limit > 0 /\ row.usage_count > row.monthly_limit THEN FALSE
    ELSE IF row.daily_limit > 0 /\ row.daily_usage >= row.daily_limit THEN FALSE
    ELSE TRUE

\* is_available without the test for disabled
is_available_DisabledSelectable(row, t) ==
    IF row.status = STATUS_SUSPENDED
       /\ row.suspended_until # NULL /\ t < row.suspended_until THEN FALSE
    ELSE IF row.monthly_limit > 0 /\ row.usage_count >= row.monthly_limit THEN FALSE
    ELSE IF row.daily_limit > 0 /\ row.daily_usage >= row.daily_limit THEN FALSE
    ELSE TRUE

\* APIKey.is_available, with datetime.now() = t
is_available(row, t) ==
    IF row.status = STATUS_DISABLED THEN FALSE
    ELSE IF row.status = STATUS_SUSPENDED
            /\ row.suspended_until # NULL /\ t < row.suspended_until THEN FALSE
    ELSE IF row.monthly_limit > 0 /\ row.usage_count >= row.monthly_limit THEN FALSE
    ELSE IF row.daily_limit > 0 /\ row.daily_usage >= row.daily_limit THEN FALSE
    ELSE TRUE

-----------------------------------------------------------------------------
(* One caller: the manager was constructed before the first call, and each  *)
(* method runs in one piece                                                 *)

None == 0
Free == 0

\* the attributes __init__ sets on the manager
ManagerAttributes == {"_initialized", "_db"}

OneCaller ==
    /\ instance = 1
    /\ instance_lock = Free
    /\ objects = (1 :> ManagerAttributes)
    /\ threads = <<>>

-----------------------------------------------------------------------------
(* Table helpers *)

Ids == DOMAIN api_keys

Update(keys, id, row) == [k \in DOMAIN keys |-> IF k = id THEN row ELSE keys[k]]

Insert(keys, id, row) == [k \in DOMAIN keys \cup {id} |-> IF k = id THEN row ELSE keys[k]]

\* a DELETE that removes no row
Delete_Nothing(keys, id) == keys

\* DELETE FROM api_keys WHERE id = ?
Delete(keys, id) == [k \in DOMAIN keys \ {id} |-> keys[k]]

Min(S) == CHOOSE x \in S : \A y \in S : x <= y

\* ORDER BY id
RECURSIVE OrderById(_)
OrderById(S) ==
    IF S = {} THEN <<>>
    ELSE <<Min(S)>> \o OrderById(S \ {Min(S)})

\* an INSERT that stores no status code
Event_NoCode(key_id, status_code, error_type) ==
    [key_id |-> key_id, status_code |-> 0, error_type |-> error_type]

\* INSERT INTO api_usage_log (key_id, status_code, error_type)
Event(key_id, status_code, error_type) ==
    [key_id |-> key_id, status_code |-> status_code, error_type |-> error_type]

\* what a call that returns no credential puts in ret.cred
NoCred == [id |-> 0]

\* op, id, code: the call; res, key, cred, list: what it returned
Ret(op, id, code, res, key) ==
    [op |-> op, id |-> id, code |-> code, res |-> res, key |-> key,
     cred |-> NoCred, list |-> <<>>]

-----------------------------------------------------------------------------
(* KeyManager._lazy_reset *)

\* a monthly reset that does not stamp last_reset_at
LazyResetMonthly_NoStamp(keys, t) ==
    [k \in DOMAIN keys |->
        IF SqlMonth(keys[k].last_reset_at) # SqlMonth(t)
        THEN [keys[k] EXCEPT !.usage_count = 0]
        ELSE keys[k]]

\* a monthly reset that clears the lifetime counter too
LazyResetMonthly_ClearsLifetime(keys, t) ==
    [k \in DOMAIN keys |->
        IF SqlMonth(keys[k].last_reset_at) # SqlMonth(t)
        THEN [keys[k] EXCEPT !.usage_count = 0, !.total_usage = 0, !.last_reset_at = t]
        ELSE keys[k]]

\* UPDATE ... SET usage_count = 0, last_reset_at = now
\* WHERE strftime('%Y-%m', last_reset_at) != strftime('%Y-%m', now)
LazyResetMonthly(keys, t) ==
    [k \in DOMAIN keys |->
        IF SqlMonth(keys[k].last_reset_at) # SqlMonth(t)
        THEN [keys[k] EXCEPT !.usage_count = 0, !.last_reset_at = t]
        ELSE keys[k]]

\* UPDATE ... SET daily_usage = 0
\* WHERE date(last_used_at) != date(now) AND last_used_at IS NOT NULL
LazyResetDaily(keys, t) ==
    [k \in DOMAIN keys |->
        IF keys[k].last_used_at # NULL /\ SqlDate(keys[k].last_used_at) # SqlDate(t)
        THEN [keys[k] EXCEPT !.daily_usage = 0]
        ELSE keys[k]]

\* the auto-unsuspend UPDATE without "status = 'suspended'" in its WHERE
LazyResetUnsuspend_AnyStatus(keys, t) ==
    [k \in DOMAIN keys |->
        IF /\ keys[k].suspended_until # NULL
           /\ SqlDatetime(keys[k].suspended_until) <= SqlDatetime(t)
        THEN [keys[k] EXCEPT !.status = STATUS_ACTIVE, !.consecutive_failures = 0]
        ELSE keys[k]]

\* the auto-unsuspend UPDATE without the comparison of suspended_until to now
LazyResetUnsuspend_NoExpiryTest(keys, t) ==
    [k \in DOMAIN keys |->
        IF /\ keys[k].status = STATUS_SUSPENDED
           /\ keys[k].suspended_until # NULL
        THEN [keys[k] EXCEPT !.status = STATUS_ACTIVE, !.consecutive_failures = 0]
        ELSE keys[k]]

\* an auto-unsuspend UPDATE that takes one failure off the counter of every
\* row whose expiry has passed
LazyResetUnsuspend_Decrements(keys, t) ==
    [k \in DOMAIN keys |->
        IF /\ keys[k].suspended_until # NULL
           /\ SqlDatetime(keys[k].suspended_until) <= SqlDatetime(t)
           /\ keys[k].consecutive_failures > 0
        THEN [keys[k] EXCEPT !.status = STATUS_ACTIVE, !.consecutive_failures = @ - 1]
        ELSE keys[k]]

\* the auto-unsuspend UPDATE also setting suspended_until = NULL
LazyResetUnsuspend_ClearsExpiry(keys, t) ==
    [k \in DOMAIN keys |->
        IF /\ keys[k].status = STATUS_SUSPENDED
           /\ keys[k].suspended_until # NULL
           /\ SqlDatetime(keys[k].suspended_until) <= SqlDatetime(t)
        THEN [keys[k] EXCEPT !.status = STATUS_ACTIVE, !.consecutive_failures = 0,
                             !.suspended_until = NULL]
        ELSE keys[k]]

\* UPDATE ... SET status = 'active', consecutive_failures = 0
\* WHERE status = 'suspended' AND suspended_until IS NOT NULL
\*   AND datetime(suspended_until) <= datetime(now)
LazyResetUnsuspend(keys, t) ==
    [k \in DOMAIN keys |->
        IF /\ keys[k].status = STATUS_SUSPENDED
           /\ keys[k].suspended_until # NULL
           /\ SqlDatetime(keys[k].suspended_until) <= SqlDatetime(t)
        THEN [keys[k] EXCEPT !.status = STATUS_ACTIVE, !.consecutive_failures = 0]
        ELSE keys[k]]

LazyReset(keys, t) == LazyResetUnsuspend(LazyResetDaily(LazyResetMonthly(keys, t), t), t)

-----------------------------------------------------------------------------
(* KeyManager.get_key *)

\* the loop of get_key: the rows, in id order, that are available at time t
AvailableKeys(keys, t) ==
    LET ordered == OrderById(DOMAIN keys)
        Test(k) == is_available(keys[k], t)
    IN  SelectSeq(ordered, Test)

\* min() that keeps the last minimal element instead of the first
RECURSIVE MinByRatio_LastMinimum(_, _, _)
MinByRatio_LastMinimum(keys, ids, best) ==
    IF ids = <<>> THEN best
    ELSE IF ~RatioLess(usage_ratio(keys[best]), usage_ratio(keys[Head(ids)]))
         THEN MinByRatio_LastMinimum(keys, Tail(ids), Head(ids))
         ELSE MinByRatio_LastMinimum(keys, Tail(ids), best)

\* min(available_keys, key=lambda k: k.usage_ratio): the first minimal element
RECURSIVE MinByRatio(_, _, _)
MinByRatio(keys, ids, best) ==
    IF ids = <<>> THEN best
    ELSE IF RatioLess(usage_ratio(keys[Head(ids)]), usage_ratio(keys[best]))
         THEN MinByRatio(keys, Tail(ids), Head(ids))
         ELSE MinByRatio(keys, Tail(ids), best)

BestKey(keys, available) == MinByRatio(keys, Tail(available), Head(available))

\* the APIKey that get_key builds from a row: the columns and the decrypted secret
Credential(id, row) ==
    [ id |-> id,
      service |-> "google",
      key |-> DecryptKey(row.encrypted_key),
      name |-> row.name,
      monthly_limit |-> row.monthly_limit,
      daily_limit |-> row.daily_limit,
      usage_count |-> row.usage_count,
      daily_usage |-> row.daily_usage,
      total_usage |-> row.total_usage,
      status |-> row.status,
      suspended_until |-> row.suspended_until,
      consecutive_failures |-> row.consecutive_failures,
      last_used_at |-> row.last_used_at,
      last_reset_at |-> row.last_reset_at ]

ENV_KEY_NAME == ".env (GOOGLE_API_KEY)"

\* the APIKey that _get_env_key builds, with datetime.now() = t
EnvCredential(t) ==
    [ id |-> -1,
      service |-> "google",
      key |-> env_key,
      name |-> ENV_KEY_NAME,
      monthly_limit |-> 0,
      daily_limit |-> 0,
      usage_count |-> 0,
      daily_usage |-> 0,
      total_usage |-> 0,
      status |-> STATUS_ACTIVE,
      suspended_until |-> NULL,
      consecutive_failures |-> 0,
      last_used_at |-> NULL,
      last_reset_at |-> t ]

\* _get_env_key returning the fallback whether or not GOOGLE_API_KEY is set
GetEnvKey_AlwaysPresent(t) ==
    [Ret("get_key", -1, 0, "env", env_key) EXCEPT !.cred = EnvCredential(t)]

\* KeyManager._get_env_key
GetEnvKey(t) ==
    IF env_key = ""
    THEN Ret("get_key", 0, 0, "none", "")
    ELSE [Ret("get_key", -1, 0, "env", env_key) EXCEPT !.cred = EnvCredential(t)]

\* t2 is the clock as is_available reads it, after _lazy_reset has read it as now
GetKey(t2) ==
    /\ t2 >= now
    /\ t2 - now < TicksPerSecond     \* the call takes less than a second
    /\ LET keys == LazyReset(api_keys, now)
           available == AvailableKeys(keys, t2)
       IN  /\ api_keys' = keys
           /\ ret' = IF available # <<>>
                     THEN LET best == BestKey(keys, available)
                          IN  [Ret("get_key", best, 0, "key",
                                   DecryptKey(keys[best].encrypted_key))
                                 EXCEPT !.cred = Credential(best, keys[best])]
                     ELSE GetEnvKey(t2)
    /\ now' = t2
    /\ master_key_file' = IF Ids = {} THEN master_key_file ELSE MasterKeyFile
    /\ UNCHANGED <<seq, api_usage_log, env_key, tools>>
    /\ UNCHANGED concurrent

-----------------------------------------------------------------------------
(* KeyManager.list_keys *)

\* round(usage_count / monthly_limit, 4), in ten-thousandths; 0.0 when the
\* quota is 0.  No quotient of the modelled counters lies on a rounding tie.
ListedRatio(row) ==
    IF row.monthly_limit > 0
    THEN (2 * 10000 * row.usage_count + row.monthly_limit) \div (2 * row.monthly_limit)
    ELSE 0

\* a listing that also SELECTs key_hash
ListedRecord_WithHash(id, row) ==
    [ id |-> id,
      service |-> "google",
      key_hash |-> row.key_hash,
      name |-> row.name,
      monthly_limit |-> row.monthly_limit,
      daily_limit |-> row.daily_limit,
      usage_count |-> row.usage_count,
      daily_usage |-> row.daily_usage,
      total_usage |-> row.total_usage,
      status |-> row.status,
      usage_ratio |-> ListedRatio(row),
      suspended_until |-> row.suspended_until,
      consecutive_failures |-> row.consecutive_failures,
      last_used_at |-> row.last_used_at,
      last_reset_at |-> row.last_reset_at ]

\* one dictionary of the result of list_keys
ListedRecord(id, row) ==
    [ id |-> id,
      service |-> "google",
      name |-> row.name,
      monthly_limit |-> row.monthly_limit,
      daily_limit |-> row.daily_limit,
      usage_count |-> row.usage_count,
      daily_usage |-> row.daily_usage,
      total_usage |-> row.total_usage,
      status |-> row.status,
      usage_ratio |-> ListedRatio(row),
      suspended_until |-> row.suspended_until,
      consecutive_failures |-> row.consecutive_failures,
      last_used_at |-> row.last_used_at,
      last_reset_at |-> row.last_reset_at ]

\* SELECT ... FROM api_keys ORDER BY id, one dictionary per row
Listing(keys) ==
    LET ordered == OrderById(DOMAIN keys)
    IN  [i \in 1 .. Len(ordered) |-> ListedRecord(ordered[i], keys[ordered[i]])]

ListKeys ==
    /\ api_keys' = LazyReset(api_keys, now)
    /\ ret' = [Ret("list_keys", 0, 0, "ok", "")
                 EXCEPT !.list = Listing(LazyReset(api_keys, now))]
    /\ UNCHANGED <<seq, api_usage_log, now, env_key, tools, master_key_file>>
    /\ UNCHANGED concurrent

-----------------------------------------------------------------------------
(* KeyManager.report_success *)

\* the success UPDATE without total_usage = total_usage + 1
SuccessUpdate_NoLifetime(row, t) ==
    [row EXCEPT !.usage_count = @ + 1,
                !.daily_usage = @ + 1,
                !.consecutive_failures = 0,
                !.last_used_at = t]

\* the success UPDATE also putting the credential back to active
SuccessUpdate_Reactivates(row, t) ==
    [row EXCEPT !.usage_count = @ + 1,
                !.daily_usage = @ + 1,
                !.total_usage = @ + 1,
                !.consecutive_failures = 0,
                !.status = STATUS_ACTIVE,
                !.last_used_at = t]

\* UPDATE api_keys SET usage_count + 1, daily_usage + 1, total_usage + 1,
\*                     consecutive_failures = 0, last_used_at = now
SuccessUpdate(row, t) ==
    [row EXCEPT !.usage_count = @ + 1,
                !.daily_usage = @ + 1,
                !.total_usage = @ + 1,
                !.consecutive_failures = 0,
                !.last_used_at = t]

\* the test for the fallback credential's id taken as key_id <= 0
IsEnvKeyId_Nonpositive(key_id) == key_id <= 0

\* if key_id < 0: return
IsEnvKeyId(key_id) == key_id < 0

\* An id below 0 returns at once.  For an id with no row the UPDATE changes
\* nothing and the INSERT into api_usage_log fails on the foreign key, so the
\* call raises before its commit.
ReportSuccess(key_id) ==
    /\ IF IsEnvKeyId(key_id)
       THEN /\ ret' = Ret("report_success", key_id, 200, "ignored", "")
            /\ UNCHANGED <<api_keys, api_usage_log>>
       ELSE IF key_id \notin Ids
       THEN /\ ret' = Ret("report_success", key_id, 200, "raise", "")
            /\ UNCHANGED <<api_keys, api_usage_log>>
       ELSE /\ api_keys' = Update(api_keys, key_id, SuccessUpdate(api_keys[key_id], now))
            /\ api_usage_log' = Append(api_usage_log, Event(key_id, 200, "success"))
            /\ ret' = Ret("report_success", key_id, 200, "ok", "")
    /\ UNCHANGED <<seq, now, env_key, tools, master_key_file>>
    /\ UNCHANGED concurrent

-----------------------------------------------------------------------------
(* KeyManager.report_failure *)

\* the classification with "server" starting above 500
ErrorType_ServerAbove500(http_code) ==
    IF http_code = 429 THEN "rate_limit"
    ELSE IF http_code \in {401, 403} THEN "auth"
    ELSE IF http_code > 500 THEN "server"
    ELSE IF http_code >= 400 THEN "client"
    ELSE "timeout"

ErrorType(http_code) ==
    IF http_code = 429 THEN "rate_limit"
    ELSE IF http_code \in {401, 403} THEN "auth"
    ELSE IF http_code >= 500 THEN "server"
    ELSE IF http_code >= 400 THEN "client"
    ELSE "timeout"

\* the 429 UPDATE without the increment of consecutive_failures
RateLimitUpdate_NoCount(row, t) ==
    [row EXCEPT !.status = STATUS_SUSPENDED,
                !.suspended_until = SuspendedUntil(t),
                !.last_used_at = t]

\* http_code == 429
RateLimitUpdate(row, t) ==
    [row EXCEPT !.status = STATUS_SUSPENDED,
                !.suspended_until = SuspendedUntil(t),
                !.consecutive_failures = @ + 1,
                !.last_used_at = t]

\* http_code in (401, 403)
AuthUpdate(row, t) ==
    [row EXCEPT !.status = STATUS_DISABLED,
                !.consecutive_failures = @ + 1,
                !.last_used_at = t]

\* every other code: count the failure, then the circuit breaker
CountFailure(row, t) ==
    [row EXCEPT !.consecutive_failures = @ + 1,
                !.last_used_at = t]

\* the threshold compared by > instead of >=
CircuitBreaker_OffByOne(row, t) ==
    IF row.consecutive_failures > MAX_CONSECUTIVE_FAILURES
    THEN [row EXCEPT !.status = STATUS_SUSPENDED,
                     !.suspended_until = SuspendedUntil(t)]
    ELSE row

\* SELECT consecutive_failures; suspend when it is >= MAX_CONSECUTIVE_FAILURES
CircuitBreaker(row, t) ==
    IF row.consecutive_failures >= MAX_CONSECUTIVE_FAILURES
    THEN [row EXCEPT !.status = STATUS_SUSPENDED,
                     !.suspended_until = SuspendedUntil(t)]
    ELSE row

OtherFailureUpdate(row, t) == CircuitBreaker(CountFailure(row, t), t)

FailureUpdate(row, http_code, t) ==
    IF http_code = 429 THEN RateLimitUpdate(row, t)
    ELSE IF http_code \in {401, 403} THEN AuthUpdate(row, t)
    ELSE OtherFailureUpdate(row, t)

\* An id below 0 is logged and dropped.  For an id with no row the first
\* statement, the INSERT into api_usage_log, fails on the foreign key and the
\* call raises.
ReportFailure(key_id, http_code) ==
    /\ IF IsEnvKeyId(key_id)
       THEN /\ ret' = Ret("report_failure", key_id, http_code, "ignored", "")
            /\ UNCHANGED <<api_keys, api_usage_log>>
       ELSE IF key_id \notin Ids
       THEN /\ ret' = Ret("report_failure", key_id, http_code, "raise", "")
            /\ UNCHANGED <<api_keys, api_usage_log>>
       ELSE /\ api_usage_log' =
                  Append(api_usage_log, Event(key_id, http_code, ErrorType(http_code)))
            /\ api_keys' =
                  Update(api_keys, key_id, FailureUpdate(api_keys[key_id], http_code, now))
            /\ ret' = Ret("report_failure", key_id, http_code, "ok", "")
    /\ UNCHANGED <<seq, now, env_key, tools, master_key_file>>
    /\ UNCHANGED concurrent

-----------------------------------------------------------------------------
(* KeyManager.add_key *)

\* the uniqueness test looking at active rows only
HashExists_ActiveOnly(keys, key_hash) ==
    \E k \in DOMAIN keys : keys[k].key_hash = key_hash /\ keys[k].status = STATUS_ACTIVE

\* UNIQUE(service, key_hash); the service is always 'google'
HashExists(keys, key_hash) == \E k \in DOMAIN keys : keys[k].key_hash = key_hash

\* the calls of add_key that insert nothing
AddRejected(key, monthly_limit, daily_limit) ==
    \/ Strip(key) = ""
    \/ monthly_limit < 0
    \/ daily_limit < 0
    \/ HashExists(api_keys, HashKey(Strip(key)))

\* id INTEGER PRIMARY KEY without AUTOINCREMENT: one more than the largest
\* rowid present in the table
NextId_MaxRowid(keys, s) ==
    IF DOMAIN keys = {} THEN 1
    ELSE (CHOOSE x \in DOMAIN keys : \A y \in DOMAIN keys : x >= y) + 1

\* id INTEGER PRIMARY KEY AUTOINCREMENT: one more than the largest rowid the
\* table ever held, which sqlite_sequence records
NextId(keys, s) == s + 1

AddKey(key, name, monthly_limit, daily_limit) ==
    /\ IF Strip(key) = ""
       THEN /\ ret' = Ret("add_key", 0, 0, "API key cannot be empty", "")
            /\ UNCHANGED <<api_keys, seq, master_key_file>>
       ELSE IF monthly_limit < 0
       THEN /\ ret' = Ret("add_key", 0, 0, "monthly_limit cannot be negative", "")
            /\ UNCHANGED <<api_keys, seq, master_key_file>>
       ELSE IF daily_limit < 0
       THEN /\ ret' = Ret("add_key", 0, 0, "daily_limit cannot be negative", "")
            /\ UNCHANGED <<api_keys, seq, master_key_file>>
       ELSE IF HashExists(api_keys, HashKey(Strip(key)))
       THEN /\ ret' = Ret("add_key", 0, 0, "Key already exists", "")
            /\ master_key_file' = MasterKeyFile
            /\ UNCHANGED <<api_keys, seq>>
       ELSE LET id == NextId(api_keys, seq)
            IN  /\ seq' = id
                /\ api_keys' = Insert(api_keys, id,
                                      NewRow(Strip(key), name, monthly_limit, daily_limit, now))
                /\ ret' = Ret("add_key", id, 0, "ok", "")
                /\ master_key_file' = MasterKeyFile
    /\ UNCHANGED <<api_usage_log, now, env_key, tools>>
    /\ UNCHANGED concurrent

-----------------------------------------------------------------------------
(* KeyManager.remove_key *)

\* the foreign key without ON DELETE CASCADE enforcement
CascadeDelete_None(log, key_id) == log

\* FOREIGN KEY(key_id) REFERENCES api_keys(id) ON DELETE CASCADE
CascadeDelete(log, key_id) ==
    LET Keep(e) == e.key_id # key_id
    IN  SelectSeq(log, Keep)

RemoveKey(key_id) ==
    /\ IF key_id \notin Ids
       THEN /\ ret' = Ret("remove_key", key_id, 0, "not found", "")
            /\ UNCHANGED <<api_keys, api_usage_log>>
       ELSE /\ api_keys' = Delete(api_keys, key_id)
            /\ api_usage_log' = CascadeDelete(api_usage_log, key_id)
            /\ ret' = Ret("remove_key", key_id, 0, "ok", "")
    /\ UNCHANGED <<seq, now, env_key, tools, master_key_file>>
    /\ UNCHANGED concurrent

-----------------------------------------------------------------------------
(* The clock *)

Tick(t) ==
    /\ t > now
    /\ now' = t
    /\ ret' = Ret("tick", 0, 0, "", "")
    /\ UNCHANGED <<api_keys, seq, api_usage_log, env_key, tools, master_key_file>>
    /\ UNCHANGED concurrent

-----------------------------------------------------------------------------
(* Spec: the Key Manager in normal operation, from an empty store, with the *)
(* fallback secret configured                                               *)

KeyInputs == {"s1", "s2", " s1 "}
NameInputs == {"n"}
QuotaInputs == {<<0, 0>>, <<1, 1>>}
Codes == {429, 401, 403, 500}
ReportIds == 1 .. MaxIds
EnvKeys == {"", "envkey"}

\* the state of everything else once the manager was constructed and used:
\* the one connection is open, no research job was started and no wrapper ran
OnlyKeyManagerUsed ==
    /\ connection = 1
    /\ connections = {1}
    /\ research_jobs = << >>
    /\ files = << >>
    /\ trace = << >>

Init ==
    /\ OneCaller
    /\ api_keys = <<>>
    /\ seq = 0
    /\ api_usage_log = <<>>
    /\ now = T0
    /\ env_key = "envkey"
    /\ OnlyKeyManagerUsed
    /\ ret = Ret("init", 0, 0, "", "")
    /\ master_key_file = NoFile

Next ==
    \/ \E key \in KeyInputs, name \in NameInputs, q \in QuotaInputs :
          /\ seq < MaxIds \/ AddRejected(key, q[1], q[2])
          /\ AddKey(key, name, q[1], q[2])
    \/ \E id \in 1 .. MaxIds : RemoveKey(id)
    \/ \E t2 \in Instants : GetKey(t2)
    \/ ListKeys
    \/ \E id \in ReportIds : Len(api_usage_log) < MaxLog /\ ReportSuccess(id)
    \/ \E id \in ReportIds, code \in Codes :
          Len(api_usage_log) < MaxLog /\ ReportFailure(id, code)
    \/ \E t \in Instants : Tick(t)

Spec == Init /\ [][Next]_vars

-----------------------------------------------------------------------------
(* SpecBreaker: one credential, freshly added, under a run of reports that  *)
(* are neither rate-limit nor authorization failures                        *)

BreakerCodes == {500, 408}

InitBreaker ==
    /\ OneCaller
    /\ master_key_file = File(GenerateKey("server"), "0600")
    /\ api_keys = Insert(<<>>, 1, NewRow("s1", "n", 0, 0, T0))
    /\ seq = 1
    /\ api_usage_log = <<>>
    /\ now = T0
    /\ env_key = ""
    /\ OnlyKeyManagerUsed
    /\ ret = Ret("add_key", 1, 0, "ok", "")

NextBreaker ==
    \/ \E code \in BreakerCodes :
          Len(api_usage_log) < MaxLogBreaker /\ ReportFailure(1, code)
    \/ Len(api_usage_log) < MaxLogBreaker /\ ReportSuccess(1)
    \/ \E t2 \in Instants : GetKey(t2)
    \/ ListKeys
    \/ \E t \in Instants : Tick(t)

SpecBreaker == InitBreaker /\ [][NextBreaker]_vars

-----------------------------------------------------------------------------
(* SpecSelect: selection over catalogs of two credentials.  Each credential *)
(* has the row and the log events that add_key, n successful reports and a  *)
(* run of failure reports leave, all at T0; the clock then moves and        *)
(* get_key / list_keys read the catalog.                                    *)

Profile(monthly_limit, daily_limit, n, fails) ==
    [monthly_limit |-> monthly_limit, daily_limit |-> daily_limit, n |-> n, fails |-> fails]

SelectProfiles ==
    { Profile(0, 0, 0, <<>>),            \* fresh, unlimited
      Profile(0, 0, 20, <<>>),           \* used, unlimited
      Profile(100, 0, 80, <<>>),
      Profile(100, 0, 20, <<>>),
      Profile(2, 0, 1, <<>>),
      Profile(2, 0, 2, <<>>),            \* monthly quota reached
      Profile(0, 1, 1, <<>>),            \* daily quota reached
      Profile(0, 0, 0, <<429>>),         \* suspended
      Profile(0, 0, 0, <<401>>),         \* disabled
      Profile(100, 0, 20, <<429, 403>>)  \* suspended, then disabled
    }

\* report_success at time t until the lifetime counter of the row reads n
RECURSIVE ApplySuccesses(_, _, _)
ApplySuccesses(row, n, t) ==
    IF row.total_usage >= n THEN row ELSE ApplySuccesses(SuccessUpdate(row, t), n, t)

RECURSIVE ApplyFailures(_, _, _)
ApplyFailures(row, fails, t) ==
    IF fails = <<>> THEN row
    ELSE ApplyFailures(FailureUpdate(row, Head(fails), t), Tail(fails), t)

ProfileRow(key, p) ==
    ApplyFailures(
        ApplySuccesses(NewRow(key, "n", p.monthly_limit, p.daily_limit, T0), p.n, T0),
        p.fails, T0)

ProfileLog(id, p) ==
    [i \in 1 .. p.n |-> Event(id, 200, "success")]
    \o [i \in 1 .. Len(p.fails) |-> Event(id, p.fails[i], ErrorType(p.fails[i]))]

InitSelect ==
    /\ OneCaller
    /\ master_key_file = File(GenerateKey("server"), "0600")
    /\ \E p1 \in SelectProfiles, p2 \in SelectProfiles :
          /\ api_keys = Insert(Insert(<<>>, 1, ProfileRow("s1", p1)), 2, ProfileRow("s2", p2))
          /\ api_usage_log = ProfileLog(1, p1) \o ProfileLog(2, p2)
    /\ seq = 2
    /\ now = T0
    /\ env_key \in EnvKeys
    /\ OnlyKeyManagerUsed
    /\ ret = Ret("init", 0, 0, "", "")

NextSelect ==
    \/ \E t2 \in CalendarInstants : GetKey(t2)
    \/ ListKeys
    \/ \E t \in CalendarInstants : Tick(t)

SpecSelect == InitSelect /\ [][NextSelect]_vars

-----------------------------------------------------------------------------
(* SpecCalendar: one credential, used and failing, read over the instants   *)
(* around the end of a suspension, on the next day and in the next month    *)

CodesCalendar == {429, 500}

InitCalendar ==
    /\ OneCaller
    /\ master_key_file = File(GenerateKey("server"), "0600")
    /\ api_keys = Insert(<<>>, 1, NewRow("s1", "n", 0, 0, T0))
    /\ seq = 1
    /\ api_usage_log = <<>>
    /\ now = T0
    /\ env_key = ""
    /\ OnlyKeyManagerUsed
    /\ ret = Ret("add_key", 1, 0, "ok", "")

NextCalendar ==
    \/ \E t2 \in CalendarInstants : GetKey(t2)
    \/ ListKeys
    \/ Len(api_usage_log) < MaxLogCalendar /\ ReportSuccess(1)
    \/ \E code \in CodesCalendar : Len(api_usage_log) < MaxLogCalendar /\ ReportFailure(1, code)
    \/ \E t \in CalendarInstants : Tick(t)

SpecCalendar == InitCalendar /\ [][NextCalendar]_vars

-----------------------------------------------------------------------------
(* SpecRatio: two credentials with quotas around the divisor of the         *)
(* unlimited ones, used a few times, and then selected                      *)

RatioProfiles ==
    { Profile(0, 0, 0, <<>>),
      Profile(0, 0, 1, <<>>),
      Profile(3, 0, 1, <<>>),
      Profile(UNLIMITED_DIVISOR, 0, 1, <<>>),
      Profile(2 * UNLIMITED_DIVISOR, 0, 1, <<>>),
      Profile(2 * UNLIMITED_DIVISOR, 0, 0, <<>>)
    }

InitRatio ==
    /\ OneCaller
    /\ master_key_file = File(GenerateKey("server"), "0600")
    /\ \E p1 \in RatioProfiles, p2 \in RatioProfiles :
          /\ api_keys = Insert(Insert(<<>>, 1, ProfileRow("s1", p1)), 2, ProfileRow("s2", p2))
          /\ api_usage_log = ProfileLog(1, p1) \o ProfileLog(2, p2)
    /\ seq = 2
    /\ now = T0
    /\ env_key = ""
    /\ OnlyKeyManagerUsed
    /\ ret = Ret("init", 0, 0, "", "")

NextRatio ==
    \/ GetKey(now)
    \/ ListKeys
    \/ \E id \in 1 .. 2 : Len(api_usage_log) < MaxLogRatio /\ ReportSuccess(id)

SpecRatio == InitRatio /\ [][NextRatio]_vars

-----------------------------------------------------------------------------
(* SpecAdmin: the catalog under add_key / remove_key with every kind of      *)
(* argument, and reports against ids that have a row, had one, never had    *)
(* one, or are not positive.  The clock stands still.                       *)

BlankKeys == {"", "   "}
KeyInputsAdmin == {"s1", "s2", " s1 "} \cup BlankKeys
QuotaInputsAdmin == {<<0, 0>>, <<-1, 0>>, <<0, -1>>, <<-1, -1>>}
CodesAdmin == {429, 500}
IdsAdmin == -2 .. MaxIdsAdmin

InitAdmin ==
    /\ OneCaller
    /\ api_keys = <<>>
    /\ seq = 0
    /\ api_usage_log = <<>>
    /\ now = T0
    /\ env_key = "envkey"
    /\ OnlyKeyManagerUsed
    /\ ret = Ret("init", 0, 0, "", "")
    /\ master_key_file = NoFile

NextAdmin ==
    \/ \E key \in KeyInputsAdmin, name \in NameInputs, q \in QuotaInputsAdmin :
          /\ seq < MaxIdsAdmin \/ AddRejected(key, q[1], q[2])
          /\ AddKey(key, name, q[1], q[2])
    \/ \E id \in IdsAdmin : RemoveKey(id)
    \/ GetKey(now)
    \/ ListKeys
    \/ \E id \in IdsAdmin :
          /\ Len(api_usage_log) < MaxLogAdmin \/ id \notin Ids
          /\ ReportSuccess(id)
    \/ \E id \in IdsAdmin, code \in CodesAdmin :
          /\ Len(api_usage_log) < MaxLogAdmin \/ id \notin Ids
          /\ ReportFailure(id, code)

SpecAdmin == InitAdmin /\ [][NextAdmin]_vars

-----------------------------------------------------------------------------
(* SpecClassify: failure reports with status codes on both sides of every   *)
(* threshold of the classification, against one credential                  *)

CodesClassify == {0, 200, 399, 400, 401, 402, 403, 404, 408, 428, 429, 430, 499, 500, 503}

InitClassify ==
    /\ OneCaller
    /\ master_key_file = File(GenerateKey("server"), "0600")
    /\ api_keys = Insert(<<>>, 1, NewRow("s1", "n", 0, 0, T0))
    /\ seq = 1
    /\ api_usage_log = <<>>
    /\ now = T0
    /\ env_key = ""
    /\ OnlyKeyManagerUsed
    /\ ret = Ret("add_key", 1, 0, "ok", "")

NextClassify ==
    \/ \E code \in CodesClassify :
          Len(api_usage_log) < MaxLogClassify /\ ReportFailure(1, code)
    \/ ListKeys

SpecClassify == InitClassify /\ [][NextClassify]_vars

-----------------------------------------------------------------------------
(* Concurrent callers.  A caller is at a position (pc) of the function it   *)
(* runs and has that function's locals; one step of a caller is one system  *)
(* call or one SQL statement.                                               *)

pc(c) == threads[c].pc

\* caller c moves to rec
Become(c, rec) == threads' = [threads EXCEPT ![c] = rec]

\* caller c moves to position p
Goto(c, p) == Become(c, [threads[c] EXCEPT !.pc = p])

-----------------------------------------------------------------------------
(* _get_or_create_master_key, run by a caller *)

\* where the caller goes on with the key
AfterMasterKey(c) == IF threads[c].op = "add_key" THEN "insert" ELSE "decrypt"

\* if _MASTER_KEY_PATH.exists():
MkExists(c) ==
    /\ pc(c) = "mk_exists"
    /\ Goto(c, IF master_key_file.exists THEN "mk_read" ELSE "mk_generate")
    /\ UNCHANGED <<api_keys, seq, api_usage_log, now, env_key, tools, ret, master_key_file,
                   instance, instance_lock, objects>>

\* return _MASTER_KEY_PATH.read_bytes().strip()
MkRead(c) ==
    /\ pc(c) = "mk_read"
    /\ Become(c, [threads[c] EXCEPT !.key = master_key_file.bytes, !.pc = AfterMasterKey(c)])
    /\ UNCHANGED <<api_keys, seq, api_usage_log, now, env_key, tools, ret, master_key_file,
                   instance, instance_lock, objects>>

\* the name under which a caller's generated key goes
CallerName == <<"A", "B", "C">>

\* key = Fernet.generate_key(); the mkdir(exist_ok=True) changes nothing modelled
MkGenerate(c) ==
    /\ pc(c) = "mk_generate"
    /\ Become(c, [threads[c] EXCEPT !.key = GenerateKey(CallerName[c]), !.pc = "mk_open"])
    /\ UNCHANGED <<api_keys, seq, api_usage_log, now, env_key, tools, ret, master_key_file,
                   instance, instance_lock, objects>>

\* write_bytes, first half: open(path, "wb") creates the file, or empties it
MkOpen(c) ==
    /\ pc(c) = "mk_open"
    /\ master_key_file' =
          File("", IF master_key_file.exists THEN master_key_file.mode ELSE "umask")
    /\ Goto(c, "mk_write")
    /\ UNCHANGED <<api_keys, seq, api_usage_log, now, env_key, tools, ret,
                   instance, instance_lock, objects>>

\* write_bytes, second half: write(key) and close
MkWrite(c) ==
    /\ pc(c) = "mk_write"
    /\ master_key_file' = [master_key_file EXCEPT !.bytes = threads[c].key]
    /\ Goto(c, "mk_chmod")
    /\ UNCHANGED <<api_keys, seq, api_usage_log, now, env_key, tools, ret,
                   instance, instance_lock, objects>>

\* _MASTER_KEY_PATH.chmod(0o600); return key
MkChmod(c) ==
    /\ pc(c) = "mk_chmod"
    /\ master_key_file' = [master_key_file EXCEPT !.mode = "0600"]
    /\ Goto(c, AfterMasterKey(c))
    /\ UNCHANGED <<api_keys, seq, api_usage_log, now, env_key, tools, ret,
                   instance, instance_lock, objects>>

GetOrCreateMasterKey(c) ==
    \/ MkExists(c)
    \/ MkRead(c)
    \/ MkGenerate(c)
    \/ MkOpen(c)
    \/ MkWrite(c)
    \/ MkChmod(c)

-----------------------------------------------------------------------------
(* add_key and get_key, run by a caller that shares the master key file and *)
(* the database with other callers                                          *)

Idle == [pc |-> "idle", op |-> "", key |-> "", secret |-> "", rows |-> <<>>,
         todo |-> <<>>, plain |-> <<>>]

\* add_key(secret) up to the call of _encrypt_key: the arguments are valid
CallAddKey(c, secret) ==
    /\ pc(c) = "idle"
    /\ Strip(secret) # ""
    /\ Become(c, [Idle EXCEPT !.pc = "mk_exists", !.op = "add_key", !.secret = Strip(secret)])
    /\ UNCHANGED <<api_keys, seq, api_usage_log, now, env_key, tools, ret, master_key_file,
                   instance, instance_lock, objects>>

\* Fernet(key).encrypt, which raises when the key read from the file is
\* empty; then the INSERT and the commit
InsertKey(c) ==
    /\ pc(c) = "insert"
    /\ LET secret == threads[c].secret
           key == threads[c].key
       IN  IF key = ""
           THEN /\ ret' = Ret("add_key", 0, 0, "Fernet key must be 32 url-safe base64-encoded bytes.", "")
                /\ UNCHANGED <<api_keys, seq>>
           ELSE IF HashExists(api_keys, HashKey(secret))
           THEN /\ ret' = Ret("add_key", 0, 0, "Key already exists", "")
                /\ UNCHANGED <<api_keys, seq>>
           ELSE LET id == NextId(api_keys, seq)
                IN  /\ seq' = id
                    /\ api_keys' =
                          Insert(api_keys, id,
                                 [NewRow(secret, "n", 0, 0, now)
                                    EXCEPT !.encrypted_key = Encrypt(key, secret)])
                    /\ ret' = Ret("add_key", id, 0, "ok", "")
    /\ Become(c, Idle)
    /\ UNCHANGED <<api_usage_log, now, env_key, tools, master_key_file,
                   instance, instance_lock, objects>>

\* get_key up to the loop over the rows: _lazy_reset and the SELECT
SelectRows(c) ==
    /\ pc(c) = "idle"
    /\ LET keys == LazyReset(api_keys, now)
       IN  /\ api_keys' = keys
           /\ IF DOMAIN keys = {}
              THEN /\ ret' = GetEnvKey(now)
                   /\ UNCHANGED threads
              ELSE /\ Become(c, [Idle EXCEPT !.pc = "mk_exists", !.op = "get_key",
                                             !.rows = keys,
                                             !.todo = OrderById(DOMAIN keys)])
                   /\ UNCHANGED ret
    /\ UNCHANGED <<seq, api_usage_log, now, env_key, tools, master_key_file,
                   instance, instance_lock, objects>>

\* key=_decrypt_key(row["encrypted_key"]) for the next row of the loop
DecryptRow(c) ==
    /\ pc(c) = "decrypt"
    /\ LET id == Head(threads[c].todo)
           plain == Decrypt(threads[c].key, threads[c].rows[id].encrypted_key)
       IN  Become(c, [threads[c] EXCEPT
                         !.plain = [k \in DOMAIN @ \cup {id} |-> IF k = id THEN plain ELSE @[k]],
                         !.todo = Tail(@),
                         !.pc = IF Tail(threads[c].todo) = <<>> THEN "return" ELSE "mk_exists"])
    /\ UNCHANGED <<api_keys, seq, api_usage_log, now, env_key, tools, ret, master_key_file,
                   instance, instance_lock, objects>>

\* the end of get_key: min() over the available rows, or the fallback
ReturnKey(c) ==
    /\ pc(c) = "return"
    /\ LET keys == threads[c].rows
           available == AvailableKeys(keys, now)
       IN  ret' = IF available # <<>>
                  THEN LET best == BestKey(keys, available)
                       IN  [Ret("get_key", best, 0, "key", threads[c].plain[best])
                              EXCEPT !.cred = [Credential(best, keys[best])
                                                 EXCEPT !.key = threads[c].plain[best]]]
                  ELSE GetEnvKey(now)
    /\ Become(c, Idle)
    /\ UNCHANGED <<api_keys, seq, api_usage_log, now, env_key, tools, master_key_file,
                   instance, instance_lock, objects>>

-----------------------------------------------------------------------------
(* SpecMasterKey: processes of one user, started on a fresh installation,   *)
(* each adding its credential and selecting                                 *)

Callers == 1 .. MaxCallers
SecretOfCaller == <<"s1", "s2", "s3">>

InitMasterKey ==
    /\ master_key_file = NoFile
    /\ api_keys = <<>>
    /\ seq = 0
    /\ api_usage_log = <<>>
    /\ now = T0
    /\ env_key = ""
    /\ OnlyKeyManagerUsed
    /\ ret = Ret("init", 0, 0, "", "")
    /\ instance = 1
    /\ instance_lock = Free
    /\ objects = (1 :> ManagerAttributes)
    /\ threads = [c \in Callers |-> Idle]

NextMasterKey ==
    \E c \in Callers :
        \/ ~HashExists(api_keys, HashKey(SecretOfCaller[c])) /\ CallAddKey(c, SecretOfCaller[c])
        \/ GetOrCreateMasterKey(c)
        \/ InsertKey(c)
        \/ SelectRows(c)
        \/ DecryptRow(c)
        \/ ReturnKey(c)

SpecMasterKey == InitMasterKey /\ [][NextMasterKey]_vars

-----------------------------------------------------------------------------
(* report_success and report_failure run by threads that share the manager, *)
(* and with it the one connection of DB: a step is one statement on that    *)
(* connection, and the statements of different threads interleave           *)

IdleReporter == [pc |-> "idle", http_code |-> 0, cf |-> 0, successes |-> 0, failures |-> 0]

\* report_success(1) up to its first statement
CallReportSuccess(c) ==
    /\ pc(c) = "idle"
    /\ Become(c, [threads[c] EXCEPT !.pc = "rs_update", !.successes = @ + 1])
    /\ UNCHANGED <<api_keys, seq, api_usage_log, now, env_key, tools, ret, master_key_file,
                   instance, instance_lock, objects>>

\* UPDATE api_keys SET usage_count = usage_count + 1, ...
RsUpdate(c) ==
    /\ pc(c) = "rs_update"
    /\ api_keys' = Update(api_keys, 1, SuccessUpdate(api_keys[1], now))
    /\ Goto(c, "rs_insert")
    /\ UNCHANGED <<seq, api_usage_log, now, env_key, tools, ret, master_key_file,
                   instance, instance_lock, objects>>

\* INSERT INTO api_usage_log ... VALUES (?, 200, 'success')
RsInsert(c) ==
    /\ pc(c) = "rs_insert"
    /\ api_usage_log' = Append(api_usage_log, Event(1, 200, "success"))
    /\ Goto(c, "rs_commit")
    /\ UNCHANGED <<api_keys, seq, now, env_key, tools, ret, master_key_file,
                   instance, instance_lock, objects>>

\* conn.commit(), and the return
RsCommit(c) ==
    /\ pc(c) = "rs_commit"
    /\ ret' = Ret("report_success", 1, 200, "ok", "")
    /\ Goto(c, "idle")
    /\ UNCHANGED <<api_keys, seq, api_usage_log, now, env_key, tools, master_key_file,
                   instance, instance_lock, objects>>

\* report_failure(1, http_code) up to its first statement
CallReportFailure(c, http_code) ==
    /\ pc(c) = "idle"
    /\ Become(c, [threads[c] EXCEPT !.pc = "rf_insert", !.http_code = http_code,
                                    !.failures = @ + 1])
    /\ UNCHANGED <<api_keys, seq, api_usage_log, now, env_key, tools, ret, master_key_file,
                   instance, instance_lock, objects>>

\* INSERT INTO api_usage_log ... VALUES (?, http_code, error_type)
RfInsert(c) ==
    /\ pc(c) = "rf_insert"
    /\ api_usage_log' =
          Append(api_usage_log,
                 Event(1, threads[c].http_code, ErrorType(threads[c].http_code)))
    /\ Goto(c, "rf_update")
    /\ UNCHANGED <<api_keys, seq, now, env_key, tools, ret, master_key_file,
                   instance, instance_lock, objects>>

\* the UPDATE of the branch the code selects
RfUpdate(c) ==
    /\ pc(c) = "rf_update"
    /\ LET http_code == threads[c].http_code
       IN  IF http_code = 429
           THEN /\ api_keys' = Update(api_keys, 1, RateLimitUpdate(api_keys[1], now))
                /\ Goto(c, "rf_commit")
           ELSE IF http_code \in {401, 403}
           THEN /\ api_keys' = Update(api_keys, 1, AuthUpdate(api_keys[1], now))
                /\ Goto(c, "rf_commit")
           ELSE /\ api_keys' = Update(api_keys, 1, CountFailure(api_keys[1], now))
                /\ Goto(c, "rf_select")
    /\ UNCHANGED <<seq, api_usage_log, now, env_key, tools, ret, master_key_file,
                   instance, instance_lock, objects>>

\* SELECT consecutive_failures FROM api_keys WHERE id = ?
RfSelect(c) ==
    /\ pc(c) = "rf_select"
    /\ Become(c, [threads[c] EXCEPT !.cf = api_keys[1].consecutive_failures,
                                    !.pc = "rf_suspend"])
    /\ UNCHANGED <<api_keys, seq, api_usage_log, now, env_key, tools, ret, master_key_file,
                   instance, instance_lock, objects>>

\* if row["consecutive_failures"] >= MAX_CONSECUTIVE_FAILURES: UPDATE ...
RfSuspend(c) ==
    /\ pc(c) = "rf_suspend"
    /\ api_keys' =
          IF threads[c].cf >= MAX_CONSECUTIVE_FAILURES
          THEN Update(api_keys, 1, [api_keys[1] EXCEPT !.status = STATUS_SUSPENDED,
                                                       !.suspended_until = SuspendedUntil(now)])
          ELSE api_keys
    /\ Goto(c, "rf_commit")
    /\ UNCHANGED <<seq, api_usage_log, now, env_key, tools, ret, master_key_file,
                   instance, instance_lock, objects>>

\* conn.commit(), and the return
RfCommit(c) ==
    /\ pc(c) = "rf_commit"
    /\ ret' = Ret("report_failure", 1, threads[c].http_code, "ok", "")
    /\ Become(c, [threads[c] EXCEPT !.pc = "idle", !.http_code = 0, !.cf = 0])
    /\ UNCHANGED <<api_keys, seq, api_usage_log, now, env_key, tools, master_key_file,
                   instance, instance_lock, objects>>

-----------------------------------------------------------------------------
(* SpecReports: threads reporting on one credential *)

Reporters == 1 .. MaxReporters
CodesReports == {429, 500}

RECURSIVE SumSeq(_)
SumSeq(ns) == IF ns = <<>> THEN 0 ELSE Head(ns) + SumSeq(Tail(ns))

\* the reports made so far
CallsMade == SumSeq([c \in DOMAIN threads |-> threads[c].successes + threads[c].failures])

InitReports ==
    /\ master_key_file = File(GenerateKey("server"), "0600")
    /\ api_keys = Insert(<<>>, 1, NewRow("s1", "n", 0, 0, T0))
    /\ seq = 1
    /\ api_usage_log = <<>>
    /\ now = T0
    /\ env_key = ""
    /\ OnlyKeyManagerUsed
    /\ ret = Ret("add_key", 1, 0, "ok", "")
    /\ instance = 1
    /\ instance_lock = Free
    /\ objects = (1 :> ManagerAttributes)
    /\ threads = [c \in Reporters |-> IdleReporter]

NextReports ==
    \E c \in Reporters :
        \/ CallsMade < MaxCalls /\ CallReportSuccess(c)
        \/ RsUpdate(c)
        \/ RsInsert(c)
        \/ RsCommit(c)
        \/ \E http_code \in CodesReports :
              /\ CallsMade < MaxCalls
              /\ CallReportFailure(c, http_code)
        \/ RfInsert(c)
        \/ RfUpdate(c)
        \/ RfSelect(c)
        \/ RfSuspend(c)
        \/ RfCommit(c)

SpecReports == InitReports /\ [][NextReports]_vars

-----------------------------------------------------------------------------
(* KeyManager(): __new__ and __init__, run by threads, and the first use of *)
(* the manager each of them is handed                                       *)

NotConstructing == [pc |-> "idle", self |-> None]

\* get_key_manager(): return KeyManager()
CallKeyManager(c) ==
    /\ pc(c) = "idle"
    /\ Become(c, [NotConstructing EXCEPT !.pc = "new_check"])
    /\ UNCHANGED <<api_keys, seq, api_usage_log, now, env_key, tools, ret, master_key_file,
                   instance, instance_lock, objects>>

\* if cls._instance is None:
NewCheck(c) ==
    /\ pc(c) = "new_check"
    /\ Goto(c, IF instance = None THEN "new_acquire" ELSE "new_return")
    /\ UNCHANGED <<api_keys, seq, api_usage_log, now, env_key, tools, ret, master_key_file,
                   instance, instance_lock, objects>>

\* with cls._instance_lock:
NewAcquire(c) ==
    /\ pc(c) = "new_acquire"
    /\ instance_lock = Free
    /\ instance_lock' = c
    /\ Goto(c, "new_recheck")
    /\ UNCHANGED <<api_keys, seq, api_usage_log, now, env_key, tools, ret, master_key_file,
                   instance, objects>>

\* if cls._instance is None:  (under the lock)
NewRecheck(c) ==
    /\ pc(c) = "new_recheck"
    /\ Goto(c, IF instance = None THEN "new_create" ELSE "new_release")
    /\ UNCHANGED <<api_keys, seq, api_usage_log, now, env_key, tools, ret, master_key_file,
                   instance, instance_lock, objects>>

\* cls._instance = super().__new__(cls): an object with no attributes yet
NewCreate(c) ==
    /\ pc(c) = "new_create"
    /\ objects' = Append(objects, {})
    /\ instance' = Len(objects) + 1
    /\ Goto(c, "new_release")
    /\ UNCHANGED <<api_keys, seq, api_usage_log, now, env_key, tools, ret, master_key_file,
                   instance_lock>>

\* the end of the with block
NewRelease(c) ==
    /\ pc(c) = "new_release"
    /\ instance_lock' = Free
    /\ Goto(c, "new_return")
    /\ UNCHANGED <<api_keys, seq, api_usage_log, now, env_key, tools, ret, master_key_file,
                   instance, objects>>

\* return cls._instance; __init__ is then called on the object returned
NewReturn(c) ==
    /\ pc(c) = "new_return"
    /\ Become(c, [threads[c] EXCEPT !.self = instance, !.pc = "init_check"])
    /\ UNCHANGED <<api_keys, seq, api_usage_log, now, env_key, tools, ret, master_key_file,
                   instance, instance_lock, objects>>

\* if hasattr(self, "_initialized"): return
InitCheck(c) ==
    /\ pc(c) = "init_check"
    /\ Goto(c, IF "_initialized" \in objects[threads[c].self] THEN "use" ELSE "init_flag")
    /\ UNCHANGED <<api_keys, seq, api_usage_log, now, env_key, tools, ret, master_key_file,
                   instance, instance_lock, objects>>

\* self._initialized = True
InitFlag(c) ==
    /\ pc(c) = "init_flag"
    /\ objects' = [objects EXCEPT ![threads[c].self] = @ \cup {"_initialized"}]
    /\ Goto(c, "init_db")
    /\ UNCHANGED <<api_keys, seq, api_usage_log, now, env_key, tools, ret, master_key_file,
                   instance, instance_lock>>

\* from .db import get_db; self._db = get_db()
InitDb(c) ==
    /\ pc(c) = "init_db"
    /\ objects' = [objects EXCEPT ![threads[c].self] = @ \cup {"_db"}]
    /\ Goto(c, "use")
    /\ UNCHANGED <<api_keys, seq, api_usage_log, now, env_key, tools, ret, master_key_file,
                   instance, instance_lock>>

\* the caller has the manager and calls get_key on it, whose first statement
\* is conn = self._db.get_connection(); the store is empty
UseManager(c) ==
    /\ pc(c) = "use"
    /\ ret' = IF "_db" \in objects[threads[c].self]
              THEN GetEnvKey(now)
              ELSE Ret("get_key", 0, 0, "AttributeError", "")
    /\ Goto(c, "idle")
    /\ UNCHANGED <<api_keys, seq, api_usage_log, now, env_key, tools, master_key_file,
                   instance, instance_lock, objects>>

-----------------------------------------------------------------------------
(* SpecSingleton: threads of a process that has not constructed the manager *)

Threads == 1 .. MaxThreads

InitSingleton ==
    /\ master_key_file = NoFile
    /\ api_keys = <<>>
    /\ seq = 0
    /\ api_usage_log = <<>>
    /\ now = T0
    /\ env_key \in EnvKeys
    /\ OnlyKeyManagerUsed
    /\ ret = Ret("init", 0, 0, "", "")
    /\ instance = None
    /\ instance_lock = Free
    /\ objects = <<>>
    /\ threads = [c \in Threads |-> NotConstructing]

NextSingleton ==
    \E c \in Threads :
        \/ CallKeyManager(c)
        \/ NewCheck(c)
        \/ NewAcquire(c)
        \/ NewRecheck(c)
        \/ NewCreate(c)
        \/ NewRelease(c)
        \/ NewReturn(c)
        \/ InitCheck(c)
        \/ InitFlag(c)
        \/ InitDb(c)
        \/ UseManager(c)

SpecSingleton == InitSingleton /\ [][NextSingleton]_vars

-----------------------------------------------------------------------------
(* What get_key returned, read in the state it leaves *)

Selected(id) == ret.op = "get_key" /\ ret.id = id

MonthlyExhausted(row) == row.monthly_limit # 0 /\ row.usage_count >= row.monthly_limit
DailyExhausted(row) == row.daily_limit # 0 /\ row.daily_usage >= row.daily_limit

\* availability as the specification words it (section 4.3)
Available(row, t) ==
    /\ row.status # STATUS_DISABLED
    /\ ~(row.status = STATUS_SUSPENDED /\ row.suspended_until # NULL
         /\ t < row.suspended_until)
    /\ ~MonthlyExhausted(row)
    /\ ~DailyExhausted(row)

\* C1: get_key never returns a persisted credential whose monthly quota is
\* nonzero and reached, nor one whose daily quota is nonzero and reached,
\* the counters being those left by the lazy reset that get_key performs.
C1_SelectRespectsQuota ==
    \A id \in Ids :
        Selected(id) => ~MonthlyExhausted(api_keys[id]) /\ ~DailyExhausted(api_keys[id])

\* get_key passed over credential 1, whose monthly quota is reached, and
\* returned credential 2, which is quota-bound and below its quota
C1_Witness ==
    /\ Selected(2)
    /\ MonthlyExhausted(api_keys[1])
    /\ api_keys[1].status = STATUS_ACTIVE
    /\ api_keys[2].monthly_limit # 0

\* C2: get_key never returns a credential whose stored status is disabled,
\* whatever its quotas, counters, expiry and the time; when every persisted
\* credential is disabled it returns the fallback credential (id -1) if the
\* fallback secret is configured and nothing otherwise.
C2_DisabledNeverSelected ==
    /\ \A id \in Ids : Selected(id) => api_keys[id].status # STATUS_DISABLED
    /\ (ret.op = "get_key" /\ \A id \in Ids : api_keys[id].status = STATUS_DISABLED)
          => IF env_key = "" THEN ret.res = "none" /\ ret.id \notin Ids
                             ELSE ret.id = -1 /\ ret.key = env_key

\* both credentials are disabled, one with a passed expiry and an unreached
\* quota, and get_key fell back to the configured secret
C2_Witness ==
    /\ Selected(-1)
    /\ \A id \in Ids : api_keys[id].status = STATUS_DISABLED
    /\ \E id \in Ids : /\ api_keys[id].suspended_until # NULL
                       /\ api_keys[id].suspended_until <= now
                       /\ api_keys[id].monthly_limit > api_keys[id].usage_count

\* C3: when a persisted credential is available, get_key returns the
\* available credential of minimum usage ratio, and among those of minimum
\* ratio the one of lowest id; of two credentials with quota 100 and usages
\* 80 and 20 it returns the one with usage 20.
C3_MinimumRatioLowestId ==
    ret.op = "get_key" =>
        LET avail == {id \in Ids : Available(api_keys[id], now)}
        IN  /\ avail # {} =>
                /\ ret.id \in avail
                /\ \A j \in avail :
                      /\ ~RatioLess(usage_ratio(api_keys[j]), usage_ratio(api_keys[ret.id]))
                      /\ usage_ratio(api_keys[j])[1] * usage_ratio(api_keys[ret.id])[2]
                           = usage_ratio(api_keys[ret.id])[1] * usage_ratio(api_keys[j])[2]
                         => ret.id <= j
            /\ \A a \in avail, b \in avail :
                  (/\ api_keys[a].monthly_limit = 100 /\ api_keys[a].usage_count = 20
                   /\ api_keys[b].monthly_limit = 100 /\ api_keys[b].usage_count = 80
                   /\ Cardinality(Ids) = 2)
                  => ret.id = a

\* quota 100 each, usage 80 on credential 1 and 20 on credential 2:
\* get_key returned credential 2
C3_Witness ==
    /\ Selected(2)
    /\ api_keys[1].monthly_limit = 100 /\ api_keys[1].usage_count = 80
    /\ api_keys[2].monthly_limit = 100 /\ api_keys[2].usage_count = 20
    /\ Available(api_keys[1], now)

-----------------------------------------------------------------------------
(* The call a step made, read from ret in the state the step leaves *)

Called(op, id) == ret.op = op /\ ret.id = id /\ ret.res = "ok"

LazyResetOps == {"get_key", "list_keys"}

\* 15 minutes, in ticks
FifteenMinutes == 15 * 60 * TicksPerSecond

\* C4: a credential suspended with expiry T + 15 min is not returned by a
\* get_key whose clock reads less than the expiry, and a get_key performed at
\* or after the expiry finds it active again with its failure counter at 0,
\* and eligible unless a quota is reached.
C4_SuspendedUntilExpiry ==
    [][ret'.op = "get_key" =>
        \A id \in Ids :
            LET r == api_keys[id]
            IN  (r.status = STATUS_SUSPENDED /\ r.suspended_until # NULL) =>
                    /\ now' < r.suspended_until => ret'.id # id
                    /\ now >= r.suspended_until =>
                          /\ api_keys'[id].status = STATUS_ACTIVE
                          /\ api_keys'[id].consecutive_failures = 0
                          /\ (~MonthlyExhausted(api_keys'[id]) /\ ~DailyExhausted(api_keys'[id]))
                                => Available(api_keys'[id], now')
      ]_vars

\* C5: report_failure(id, 429) on a persisted credential leaves it suspended
\* with expiry = time of the report + 15 minutes, whatever the failure
\* counter was, and adds one to the counter.
C5_RateLimitSuspends ==
    [][\A id \in Ids :
          (Called("report_failure", id)' /\ ret'.code = 429) =>
              /\ api_keys'[id].status = STATUS_SUSPENDED
              /\ api_keys'[id].suspended_until # NULL
              /\ api_keys'[id].suspended_until = now + FifteenMinutes
              /\ api_keys'[id].consecutive_failures = api_keys[id].consecutive_failures + 1
      ]_vars

\* a 429 was reported against a credential that already had a failure counted
C5_Witness ==
    \E id \in Ids :
        /\ Called("report_failure", id) /\ ret.code = 429
        /\ api_keys[id].status = STATUS_SUSPENDED
        /\ api_keys[id].consecutive_failures = 2

\* C6: report_failure(id, 401) and report_failure(id, 403) set the status to
\* disabled, and from then on report_success and the lazy reset of get_key /
\* list_keys, at any later time, leave it disabled.
C6_AuthDisablesForGood ==
    [][\A id \in Ids :
          /\ (Called("report_failure", id)' /\ ret'.code \in {401, 403})
                => api_keys'[id].status = STATUS_DISABLED
          /\ (/\ api_keys[id].status = STATUS_DISABLED
              /\ ret'.op \in LazyResetOps \cup {"report_success", "tick"})
                => id \in Ids' /\ api_keys'[id].status = STATUS_DISABLED
      ]_vars

\* a credential was disabled by 401/403, then a success was reported for it,
\* and a get_key after the cooldown window found it still disabled
C6_Witness ==
    \E id \in Ids :
        /\ ret.op = "get_key"
        /\ now >= T0 + FifteenMinutes
        /\ api_keys[id].status = STATUS_DISABLED
        /\ Len(api_usage_log) = 2
        /\ api_usage_log[1].error_type = "auth"
        /\ api_usage_log[2].status_code = 200

\* C7: disabled is terminal: no operation other than remove_key changes the
\* status of a disabled credential.
C7_DisabledIsTerminal ==
    [][\A id \in Ids \cap Ids' :
          api_keys[id].status = STATUS_DISABLED => api_keys'[id].status = STATUS_DISABLED
      ]_vars

\* C8: for an active credential a failure report with a code other than 429,
\* 401, 403 adds one to the failure counter, leaves the status active while
\* the counter stays below 5, and suspends for 15 minutes when the counter
\* reaches 5; report_success puts the counter back to 0.
C8_CircuitBreaker ==
    [][\A id \in Ids :
          /\ (/\ Called("report_failure", id)' /\ ret'.code \notin {429, 401, 403}
              /\ api_keys[id].status = STATUS_ACTIVE)
                => LET before == api_keys[id]
                       after == api_keys'[id]
                   IN  /\ after.consecutive_failures = before.consecutive_failures + 1
                       /\ IF after.consecutive_failures < 5
                          THEN /\ after.status = STATUS_ACTIVE
                               /\ after.suspended_until = before.suspended_until
                          ELSE /\ after.status = STATUS_SUSPENDED
                               /\ after.suspended_until = now + FifteenMinutes
          /\ Called("report_success", id)' => api_keys'[id].consecutive_failures = 0
      ]_vars

\* a failure, then a success, then five failures in a row: the fifth one,
\* not the fourth, suspended the credential
C8_Witness ==
    /\ Called("report_failure", 1)
    /\ Len(api_usage_log) = 7
    /\ api_usage_log[1].status_code # 200
    /\ api_usage_log[2].status_code = 200
    /\ \A i \in 3 .. 7 : api_usage_log[i].status_code # 200
    /\ api_keys[1].status = STATUS_SUSPENDED
    /\ api_keys[1].consecutive_failures = 5
    /\ api_keys[1].suspended_until = now + FifteenMinutes

\* C9: report_success(id) on a persisted credential, in any status, adds one
\* to the monthly, daily and lifetime counters, zeroes the failure counter,
\* stamps last_used_at with the current time, appends one event with status
\* code 200 for that credential, and leaves status, expiry, quotas, name and
\* secret payload as they were.
C9_ReportSuccessEffect ==
    [][\A id \in Ids :
          Called("report_success", id)' =>
              LET before == api_keys[id]
                  after == api_keys'[id]
                  n == Len(api_usage_log)
              IN  /\ after.usage_count = before.usage_count + 1
                  /\ after.daily_usage = before.daily_usage + 1
                  /\ after.total_usage = before.total_usage + 1
                  /\ after.consecutive_failures = 0
                  /\ after.last_used_at = now
                  /\ after.status = before.status
                  /\ after.suspended_until = before.suspended_until
                  /\ after.monthly_limit = before.monthly_limit
                  /\ after.daily_limit = before.daily_limit
                  /\ after.name = before.name
                  /\ after.encrypted_key = before.encrypted_key
                  /\ Len(api_usage_log') = n + 1
                  /\ SubSeq(api_usage_log', 1, n) = api_usage_log
                  /\ api_usage_log'[n + 1].key_id = id
                  /\ api_usage_log'[n + 1].status_code = 200
      ]_vars

\* a success was reported for a disabled credential that had a failure counted
C9_Witness ==
    \E id \in Ids :
        /\ Called("report_success", id)
        /\ api_keys[id].status = STATUS_DISABLED
        /\ api_keys[id].total_usage = 1
        /\ Len(api_usage_log) = 2

-----------------------------------------------------------------------------
(* The suspension expiry *)

-----------------------------------------------------------------------------
(* Reports against ids without a credential *)

Reports == {"report_success", "report_failure"}

C13_ReportFailureAlwaysSucceeds ==
    ret.op = "report_failure" => ret.res \in {"ok", "ignored"}

-----------------------------------------------------------------------------
(* add_key and remove_key *)

AddCalled == ret.op = "add_key"

NegativeQuotaErrors == {"monthly_limit cannot be negative", "daily_limit cannot be negative"}

\* C14: add_key with an empty or whitespace-only key returns the error
\* "API key cannot be empty"; with a non-blank key and a negative monthly or
\* daily limit it returns "monthly_limit cannot be negative" (tested first) or
\* "daily_limit cannot be negative"; in each case no table is written.
C14_InvalidAddRejected ==
    [][\A key \in KeyInputsAdmin, name \in NameInputs, q \in QuotaInputsAdmin :
          AddKey(key, name, q[1], q[2]) =>
              /\ key \in BlankKeys =>
                    /\ ret'.res = "API key cannot be empty"
                    /\ UNCHANGED <<api_keys, seq, api_usage_log>>
              /\ (key \notin BlankKeys /\ (q[1] < 0 \/ q[2] < 0)) =>
                    /\ ret'.res \in NegativeQuotaErrors
                    /\ ret'.res = "monthly_limit cannot be negative" <=> q[1] < 0
                    /\ UNCHANGED <<api_keys, seq, api_usage_log>>
      ]_vars

\* a blank key was rejected while the catalog held a credential
C14_Witness ==
    /\ AddCalled
    /\ ret.res = "API key cannot be empty"
    /\ Ids # {}

\* C15: no two rows have the same key_hash; add_key of a valid key whose
\* hash, after stripping, is present in a row of any status returns "Key
\* already exists" and writes nothing; add_key of a valid key whose hash is
\* absent, as it is again once the row was removed, inserts it.
C15_HashUnique ==
    [][/\ \A a \in Ids', b \in Ids' :
             a # b => api_keys'[a].key_hash # api_keys'[b].key_hash
       /\ \A key \in KeyInputsAdmin \ BlankKeys, name \in NameInputs,
          q \in {v \in QuotaInputsAdmin : v[1] >= 0 /\ v[2] >= 0} :
             AddKey(key, name, q[1], q[2]) =>
                 LET key_hash == HashKey(Strip(key))
                 IN  IF \E id \in Ids : api_keys[id].key_hash = key_hash
                     THEN /\ ret'.res = "Key already exists"
                          /\ UNCHANGED <<api_keys, seq, api_usage_log>>
                     ELSE /\ ret'.res = "ok"
                          /\ Ids' = Ids \cup {ret'.id}
                          /\ ret'.id \notin Ids
                          /\ api_keys'[ret'.id].key_hash = key_hash
      ]_vars

\* the key of a suspended credential was offered again and refused
C15_Witness ==
    /\ AddCalled
    /\ ret.res = "Key already exists"
    /\ \E id \in Ids : /\ api_keys[id].key_hash = HashKey("s1")
                        /\ api_keys[id].status = STATUS_SUSPENDED

\* C16: seq is the largest id add_key ever returned, and it never decreases;
\* a successful add_key returns an id that is positive and greater than seq,
\* hence greater than every id returned before, whether or not its row
\* still exists.
C16_IdsNeverReused ==
    [][/\ seq' >= seq
       /\ \A id \in Ids' : id >= 1 /\ id <= seq'
       /\ IF AddCalled' /\ ret'.res = "ok"
          THEN /\ ret'.id > 0
               /\ ret'.id > seq
               /\ \A id \in Ids : ret'.id > id
               /\ seq' = ret'.id
          ELSE seq' = seq
      ]_vars

\* credential 1 was removed, and the next add_key returned id 2
C16_Witness ==
    /\ AddCalled /\ ret.res = "ok" /\ ret.id = 2
    /\ Ids = {2}

RemoveCalled == ret.op = "remove_key"

\* the ids of a listing, in its order
ListedIds(list) == [i \in 1 .. Len(list) |-> list[i].id]

\* C17: remove_key(id) with no row of that id returns the not-found error
\* and changes nothing; with a row it returns success, deletes that row and
\* leaves every other row as it was; a deleted id never has a row again, so
\* list_keys lists exactly the ids that have a row and get_key returns one
\* of them, the fallback or nothing.
C17_RemoveKey ==
    [][/\ RemoveCalled' =>
             IF ret'.id \notin Ids
             THEN /\ ret'.res = "not found"
                  /\ UNCHANGED <<api_keys, seq, api_usage_log>>
             ELSE /\ ret'.res = "ok"
                  /\ Ids' = Ids \ {ret'.id}
                  /\ \A other \in Ids' : api_keys'[other] = api_keys[other]
       /\ \A id \in 1 .. seq : id \notin Ids => id \notin Ids'
       /\ ret'.op = "list_keys" => ListedIds(ret'.list) = OrderById(Ids')
       /\ ret'.op = "get_key" => \/ ret'.id \in Ids' /\ ret'.cred.id = ret'.id
                                 \/ ret'.id = -1
                                 \/ ret'.res = "none"
      ]_vars

\* credential 1 of two was removed; credential 2 is there with its counters
C17_Witness ==
    /\ RemoveCalled /\ ret.res = "ok" /\ ret.id = 1
    /\ Ids = {2}
    /\ api_keys[2].total_usage = 1

\* C18: every event of api_usage_log refers to a row of api_keys; a
\* successful remove_key(id) deletes exactly the events of that id and keeps
\* the others in their order.
C18_CascadeToUsageLog ==
    [][/\ \A i \in 1 .. Len(api_usage_log') : api_usage_log'[i].key_id \in Ids'
       /\ (RemoveCalled' /\ ret'.res = "ok") =>
             LET Other(e) == e.key_id # ret'.id
             IN  api_usage_log' = SelectSeq(api_usage_log, Other)
       /\ (RemoveCalled' /\ ret'.res # "ok") => api_usage_log' = api_usage_log
      ]_vars

\* a credential was removed and the log holds the event of the other one
C18_Witness ==
    /\ RemoveCalled /\ ret.res = "ok" /\ ret.id = 1
    /\ api_usage_log = <<Event(2, 429, "rate_limit")>>
    /\ api_keys[2].consecutive_failures = 1

-----------------------------------------------------------------------------
(* What list_keys and get_key give out *)

\* the keys of the dictionaries of list_keys: none of key_hash, encrypted_key, key
MetadataFields ==
    { "id", "service", "name", "monthly_limit", "daily_limit", "usage_count",
      "daily_usage", "total_usage", "status", "usage_ratio", "suspended_until",
      "consecutive_failures", "last_used_at", "last_reset_at" }

SecretInputs == {"s1", "s2", "s3"}

\* the catalog with the secret f[id] in place of the secret of credential id
Resecret(keys, f) ==
    [k \in DOMAIN keys |->
        [keys[k] EXCEPT !.key_hash = HashKey(f[k]), !.encrypted_key = EncryptKey(f[k])]]

\* C19: every dictionary that list_keys returns has the metadata fields
\* only, and list_keys returns the same list on every catalog that differs
\* from the present one only in the secrets (key_hash, encrypted_key) of its
\* credentials.
C19_ListHidesSecrets ==
    [][ret'.op = "list_keys" =>
          /\ \A i \in 1 .. Len(ret'.list) : DOMAIN ret'.list[i] = MetadataFields
          /\ \A f \in [Ids -> SecretInputs] :
                Listing(LazyReset(Resecret(api_keys, f), now)) = ret'.list
      ]_vars

\* list_keys listed two credentials, one of them suspended
C19_Witness ==
    /\ ret.op = "list_keys"
    /\ Len(ret.list) = 2
    /\ ret.list[1].id = 1 /\ ret.list[2].id = 2
    /\ ret.list[1].status = STATUS_SUSPENDED
    /\ ret.list[2].usage_count = 20

\* C20: get_key returns the fallback credential (id -1, name ".env
\* (GOOGLE_API_KEY)", quotas 0, the secret of GOOGLE_API_KEY) exactly when,
\* after its lazy reset, no row is available and GOOGLE_API_KEY is set; it
\* returns None exactly when no row is available and GOOGLE_API_KEY is
\* unset; it inserts no row and logs no event.
C20_FallbackCredential ==
    [][ret'.op = "get_key" =>
          LET avail == {id \in Ids' : Available(api_keys'[id], now')}
          IN  /\ ret'.res = "env" <=> (avail = {} /\ env_key # "")
              /\ ret'.res = "none" <=> (avail = {} /\ env_key = "")
              /\ ret'.res = "env" =>
                    /\ ret'.id = -1 /\ ret'.cred.id = -1
                    /\ ret'.cred.name = ENV_KEY_NAME
                    /\ ret'.cred.monthly_limit = 0 /\ ret'.cred.daily_limit = 0
                    /\ ret'.cred.key = env_key /\ ret'.key = env_key
              /\ ret'.res = "none" => ret'.cred = NoCred
              /\ ret'.res \notin {"env", "none"} => ret'.id \in avail
              /\ Ids' = Ids /\ -1 \notin Ids'
              /\ \A id \in Ids : api_keys'[id].encrypted_key = api_keys[id].encrypted_key
              /\ UNCHANGED <<seq, api_usage_log>>
      ]_vars

\* one credential has reached its monthly quota, the other is suspended and
\* not yet due, and get_key returned the fallback credential
C20_Witness ==
    /\ Selected(-1) /\ ret.res = "env"
    /\ \E id \in Ids : MonthlyExhausted(api_keys[id]) /\ api_keys[id].status = STATUS_ACTIVE
    /\ \E id \in Ids : /\ api_keys[id].status = STATUS_SUSPENDED
                        /\ now < api_keys[id].suspended_until

-----------------------------------------------------------------------------
(* The usage-event log *)

\* log is the beginning of log2
IsPrefix(log, log2) ==
    /\ Len(log) <= Len(log2)
    /\ SubSeq(log2, 1, Len(log)) = log

\* C21: report_success and report_failure against a credential that has a
\* row append exactly one event, with that credential's id and the status
\* code (200 for a success, the reported code for a failure); every step
\* other than a successful remove_key keeps the events there are, unchanged
\* and in order; add_key, list_keys and get_key append nothing.
C21_LogAppendOnly ==
    [][/\ \A id \in Ids :
             (ret'.op \in Reports /\ ret'.id = id) =>
                 /\ ret'.res = "ok"
                 /\ Len(api_usage_log') = Len(api_usage_log) + 1
                 /\ IsPrefix(api_usage_log, api_usage_log')
                 /\ api_usage_log'[Len(api_usage_log')].key_id = id
                 /\ api_usage_log'[Len(api_usage_log')].status_code =
                        IF ret'.op = "report_success" THEN 200 ELSE ret'.code
       /\ ~(RemoveCalled' /\ ret'.res = "ok") => IsPrefix(api_usage_log, api_usage_log')
       /\ ret'.op \in {"add_key", "list_keys", "get_key"} => api_usage_log' = api_usage_log
      ]_vars

\* a failure was reported for credential 2 after a success for credential 1:
\* the log holds the two events in that order
C21_Witness ==
    /\ Called("report_failure", 2) /\ ret.code = 500
    /\ Len(api_usage_log) = 2
    /\ api_usage_log[1] = Event(1, 200, "success")
    /\ api_usage_log[2].key_id = 2 /\ api_usage_log[2].status_code = 500

\* the classification as the specification words it
TagOfCode(code) ==
    CASE code = 429 -> "rate_limit"
      [] code \in {401, 403} -> "auth"
      [] code >= 500 -> "server"
      [] code >= 400 /\ code < 500 /\ code \notin {401, 403, 429} -> "client"
      [] code < 400 -> "timeout"

\* C22: every event appended by report_failure(id, code) has error_type
\* rate_limit for 429, auth for 401 and 403, server for code >= 500, client
\* for the other codes >= 400 and timeout for code < 400, whatever the
\* credential's state and the events before it.
C22_ErrorTypeOfCode ==
    \A i \in 1 .. Len(api_usage_log) :
        api_usage_log[i].error_type = TagOfCode(api_usage_log[i].status_code)

\* 500 was reported, then 499: the events are tagged server and client
C22_Witness ==
    /\ Len(api_usage_log) = 2
    /\ api_usage_log[1].status_code = 500 /\ api_usage_log[1].error_type = "server"
    /\ api_usage_log[2].status_code = 499 /\ api_usage_log[2].error_type = "client"

-----------------------------------------------------------------------------
(* The master key *)

\* the callers to which _get_or_create_master_key has returned a key
HoldsMasterKey(c) == pc(c) \in {"insert", "decrypt"}

\* C23: every call of _get_or_create_master_key returns the same key, and
\* every stored secret was encrypted with the key a caller decrypts with.
C23_MasterKeyGeneratedOnce ==
    /\ \A c \in DOMAIN threads, d \in DOMAIN threads :
          (HoldsMasterKey(c) /\ HoldsMasterKey(d)) => threads[c].key = threads[d].key
    /\ \A c \in DOMAIN threads, id \in Ids :
          pc(c) = "decrypt" =>
              Decrypt(threads[c].key, api_keys[id].encrypted_key) \in Secrets

-----------------------------------------------------------------------------
(* Encryption of the stored secrets *)

-----------------------------------------------------------------------------
(* The usage ratio of unlimited credentials *)

Unlimited(id) == api_keys[id].monthly_limit = 0
QuotaBoundAndUsed(id) == api_keys[id].monthly_limit > 0 /\ api_keys[id].usage_count > 0

\* both rows are available, and get_key has just chosen between them
ChosenBetween(a, b) ==
    /\ ret.op = "get_key"
    /\ Ids = {a, b}
    /\ Available(api_keys[a], now)
    /\ Available(api_keys[b], now)

\* C25 as the specification has it: an unlimited credential has, whatever
\* its usage, a smaller ratio than any quota-bound credential with nonzero
\* usage, and get_key prefers it; of two unlimited credentials the less used
\* has the smaller ratio.
C25_UnlimitedAlwaysPreferred ==
    \A a \in Ids, b \in Ids :
        /\ (Unlimited(a) /\ QuotaBoundAndUsed(b)) =>
              /\ RatioLess(usage_ratio(api_keys[a]), usage_ratio(api_keys[b]))
              /\ ChosenBetween(a, b) => ret.id = a
        /\ (Unlimited(a) /\ Unlimited(b) /\ api_keys[a].usage_count < api_keys[b].usage_count) =>
              RatioLess(usage_ratio(api_keys[a]), usage_ratio(api_keys[b]))

\* C25, amended: an unlimited credential with usage u has a smaller ratio
\* than a quota-bound credential with quota q and usage v > 0 exactly when
\* u * q < v * 1000000, and then get_key prefers it; when u * q > v * 1000000
\* get_key prefers the quota-bound one, and on equality the one of lower id.
\* Of two unlimited credentials the less used has the smaller ratio and is
\* preferred.
C25_UnlimitedPreferredBelowDivisor ==
    \A a \in Ids, b \in Ids :
        /\ (Unlimited(a) /\ QuotaBoundAndUsed(b)) =>
              LET uq == api_keys[a].usage_count * api_keys[b].monthly_limit
                  vd == api_keys[b].usage_count * UNLIMITED_DIVISOR
              IN  /\ RatioLess(usage_ratio(api_keys[a]), usage_ratio(api_keys[b])) <=> uq < vd
                  /\ ChosenBetween(a, b) =>
                        ret.id = (IF uq < vd THEN a
                                  ELSE IF uq > vd THEN b
                                  ELSE IF a < b THEN a ELSE b)
        /\ (Unlimited(a) /\ Unlimited(b) /\ api_keys[a].usage_count < api_keys[b].usage_count) =>
              /\ RatioLess(usage_ratio(api_keys[a]), usage_ratio(api_keys[b]))
              /\ ChosenBetween(a, b) => ret.id = a

\* an unlimited credential used once and a credential with quota 2000000
\* used once: get_key returned the quota-bound one
C25_Witness ==
    /\ Ids = {1, 2}
    /\ Unlimited(1) /\ api_keys[1].usage_count = 1
    /\ api_keys[2].monthly_limit = 2 * UNLIMITED_DIVISOR /\ api_keys[2].usage_count = 1
    /\ Selected(2)

-----------------------------------------------------------------------------
(* The lazy reset *)

\* the step is a get_key or a list_keys, whose lazy reset runs at time now
LazyResetStep == ret'.op \in LazyResetOps

MonthlyResetDue(row, t) == SqlMonth(row.last_reset_at) # SqlMonth(t)
DailyResetDue(row, t) == row.last_used_at # NULL /\ SqlDate(row.last_used_at) # SqlDate(t)

\* the counters decrease only in a reset, which sets them to zero
CountersDecreaseOnlyInReset(before, after) ==
    /\ after.usage_count < before.usage_count =>
          LazyResetStep /\ MonthlyResetDue(before, now) /\ after.usage_count = 0
    /\ after.daily_usage < before.daily_usage =>
          LazyResetStep /\ DailyResetDue(before, now) /\ after.daily_usage = 0

\* a monthly reset sets the monthly counter to zero and stamps last_reset_at
MonthlyResetStamps(before, after) ==
    (LazyResetStep /\ MonthlyResetDue(before, now)) =>
        after.usage_count = 0 /\ after.last_reset_at = now

\* C26 as the specification has it: the counters decrease only in a reset,
\* and every reset, monthly or daily, sets its counter to zero and stamps
\* last_reset_at with the time of the reset.
C26_EveryResetStamps ==
    [][ \A id \in Ids \cap DOMAIN api_keys' :
          LET before == api_keys[id]
              after == api_keys'[id]
          IN  /\ CountersDecreaseOnlyInReset(before, after)
              /\ MonthlyResetStamps(before, after)
              /\ (LazyResetStep /\ DailyResetDue(before, now)) =>
                    after.daily_usage = 0 /\ after.last_reset_at = now
      ]_vars

\* C26, amended: the counters decrease only in a reset, which sets them to
\* zero; a monthly reset stamps last_reset_at with the time of the reset; a
\* daily reset sets daily_usage to zero and leaves last_reset_at as it was,
\* unless the monthly reset is due in the same lazy reset.
C26_OnlyMonthlyResetStamps ==
    [][ \A id \in Ids \cap DOMAIN api_keys' :
          LET before == api_keys[id]
              after == api_keys'[id]
          IN  /\ CountersDecreaseOnlyInReset(before, after)
              /\ MonthlyResetStamps(before, after)
              /\ (LazyResetStep /\ DailyResetDue(before, now)) =>
                    /\ after.daily_usage = 0
                    /\ ~MonthlyResetDue(before, now) =>
                          after.last_reset_at = before.last_reset_at
      ]_vars

\* the day after its use the credential has been read: its daily counter is
\* zero, its monthly counter is not, and last_reset_at is still the time it
\* was added
C26_Witness ==
    /\ ret.op \in LazyResetOps
    /\ now = T0 + TicksPerDay
    /\ 1 \in Ids
    /\ api_keys[1].usage_count > 0
    /\ api_keys[1].daily_usage = 0
    /\ api_keys[1].last_reset_at = CurrentTimestamp(T0)

\* the row is suspended and its expiry has passed at time t
ExpiryPassed(row, t) ==
    row.status = STATUS_SUSPENDED /\ row.suspended_until # NULL /\ row.suspended_until <= t

\* C27: get_key and list_keys first perform the lazy reset on every row, and
\* read and return the rows it leaves: usage_count is 0 where the month of
\* last_reset_at differed from the current month, daily_usage is 0 where the
\* row has been used and the date of last_used_at differed from the current
\* date, a suspended row whose expiry has passed is active with
\* consecutive_failures 0, and a row in none of these cases is unchanged.
C27_LazyResetOnRead ==
    [][ LazyResetStep =>
          /\ \A id \in Ids :
                LET before == api_keys[id]
                    after == api_keys'[id]
                IN  /\ MonthlyResetDue(before, now) => after.usage_count = 0
                    /\ DailyResetDue(before, now) => after.daily_usage = 0
                    /\ ExpiryPassed(before, now) =>
                          after.status = STATUS_ACTIVE /\ after.consecutive_failures = 0
                    /\ (/\ ~MonthlyResetDue(before, now)
                        /\ ~DailyResetDue(before, now)
                        /\ ~ExpiryPassed(before, now)) => after = before
          /\ ret'.op = "list_keys" => ret'.list = Listing(api_keys')
          /\ (ret'.op = "get_key" /\ ret'.id \in Ids) =>
                ret'.cred = Credential(ret'.id, api_keys'[ret'.id])
      ]_vars

\* C28: the lazy reset is idempotent: at any time, applying it to the rows
\* it has left changes nothing, and a get_key or list_keys that follows a
\* list_keys with no report and no advance of the clock in between leaves
\* every row as the list_keys left it.
C28_LazyResetIdempotent ==
    [][ /\ \A t \in CalendarInstants :
              LazyReset(LazyReset(api_keys, t), t) = LazyReset(api_keys, t)
        /\ (ret.op = "list_keys" /\ LazyResetStep) => api_keys' = api_keys
      ]_vars

\* in the month after its use the credential has been reset and read again:
\* the rows are those the reset at this time leaves
C28_Witness ==
    /\ ret.op = "get_key"
    /\ now = T0 + TicksPerMonth
    /\ 1 \in Ids
    /\ api_keys[1].total_usage > 0
    /\ api_keys[1].usage_count = 0
    /\ api_keys[1].last_reset_at = now
    /\ api_keys[1].status = STATUS_ACTIVE
    /\ api_keys[1].suspended_until # NULL
    /\ LazyReset(api_keys, now) = api_keys

-----------------------------------------------------------------------------
(* Concurrent reports *)

\* the number of calls counted in field, less those still at a position in
\* before, which have not yet run the statement in question
Executed(field, before) ==
    SumSeq([c \in DOMAIN threads |->
              IF pc(c) \in before THEN threads[c][field] - 1 ELSE threads[c][field]])

\* C29: however the statements of the threads' report_success and
\* report_failure calls on credential 1 interleave, no increment is lost:
\* every success UPDATE that has run has added one to each usage counter,
\* every INSERT that has run has added one event, and when all the calls
\* have returned total_usage has grown by the number N of report_success
\* calls and the log by N + M events, M the number of report_failure calls.
C29_NoLostIncrements ==
    LET N == SumSeq([c \in DOMAIN threads |-> threads[c].successes])
        M == SumSeq([c \in DOMAIN threads |-> threads[c].failures])
    IN  /\ api_keys[1].total_usage = Executed("successes", {"rs_update"})
        /\ api_keys[1].usage_count = api_keys[1].total_usage
        /\ api_keys[1].daily_usage = api_keys[1].total_usage
        /\ Len(api_usage_log) =
              Executed("successes", {"rs_update", "rs_insert"})
                + Executed("failures", {"rf_insert"})
        /\ (\A c \in DOMAIN threads : pc(c) = "idle") =>
              /\ api_keys[1].total_usage = N
              /\ Len(api_usage_log) = N + M
              /\ Cardinality({i \in 1 .. Len(api_usage_log) :
                                api_usage_log[i].status_code = 200}) = N

\* one thread has made a report_success and the other a report_failure, and
\* both calls have returned; the last event is the success and yet the
\* failure counter is not 0, so the report_failure ran between the UPDATE and
\* the INSERT of the report_success
C29_Witness ==
    /\ \A c \in DOMAIN threads : pc(c) = "idle"
    /\ threads[1].successes = 1 /\ threads[1].failures = 0
    /\ threads[2].successes = 0 /\ threads[2].failures = 1
    /\ Len(api_usage_log) = 2
    /\ api_usage_log[1].status_code # 200
    /\ api_usage_log[2].status_code = 200
    /\ api_keys[1].consecutive_failures > 0
    /\ api_keys[1].total_usage = 1

-----------------------------------------------------------------------------
(* Construction of the manager *)

\* C30: however the threads' calls of KeyManager() interleave, all of them
\* are handed the same instance, and an instance handed to a caller has its
\* _db set: no call on it fails for the lack of it.
C30_SingletonInitialised ==
    /\ \A c \in DOMAIN threads, d \in DOMAIN threads :
          (threads[c].self # None /\ threads[d].self # None) =>
              threads[c].self = threads[d].self
    /\ \A c \in DOMAIN threads :
          pc(c) = "use" => "_db" \in objects[threads[c].self]
    /\ ret.res # "AttributeError"

-----------------------------------------------------------------------------
(* DB.get_connection, statement by statement (db.py 81-98).  The threads    *)
(* share the one DB object; nothing orders their calls.                     *)

\* a thread outside get_connection that was handed nothing yet
NoConnection == [pc |-> "idle", got |-> None]

Openers == 1 .. MaxOpeners

\* a thread enters get_connection()
CallGetConnection(c) ==
    /\ pc(c) = "idle"
    /\ Goto(c, "gc_check")
    /\ UNCHANGED <<api_keys, seq, api_usage_log, now, env_key, ret, master_key_file,
                   instance, instance_lock, objects,
                   connection, connections, research_jobs, files, trace>>

\* if self._connection is None:
GcCheck(c) ==
    /\ pc(c) = "gc_check"
    /\ Goto(c, IF connection = None THEN "gc_connect" ELSE "gc_return")
    /\ UNCHANGED <<api_keys, seq, api_usage_log, now, env_key, ret, master_key_file,
                   instance, instance_lock, objects,
                   connection, connections, research_jobs, files, trace>>

\* self._connection = sqlite3.connect(str(db_path), check_same_thread=False)
GcConnect(c) ==
    /\ pc(c) = "gc_connect"
    /\ LET opened == Cardinality(connections) + 1 IN
           /\ connections' = connections \cup {opened}
           /\ connection' = opened
    /\ Goto(c, "gc_setup")
    /\ UNCHANGED <<api_keys, seq, api_usage_log, now, env_key, ret, master_key_file,
                   instance, instance_lock, objects, research_jobs, files, trace>>

\* row_factory, the two PRAGMAs, executescript(_SCHEMA) with its
\* CREATE TABLE IF NOT EXISTS statements, commit
GcSetup(c) ==
    /\ pc(c) = "gc_setup"
    /\ Goto(c, "gc_return")
    /\ UNCHANGED <<api_keys, seq, api_usage_log, now, env_key, ret, master_key_file,
                   instance, instance_lock, objects,
                   connection, connections, research_jobs, files, trace>>

\* return self._connection
GcReturn(c) ==
    /\ pc(c) = "gc_return"
    /\ Become(c, [pc |-> "idle", got |-> connection])
    /\ UNCHANGED <<api_keys, seq, api_usage_log, now, env_key, ret, master_key_file,
                   instance, instance_lock, objects,
                   connection, connections, research_jobs, files, trace>>

\* the DB object exists, no connection was opened, the database file is empty
InitConnection ==
    /\ ret = Ret("init", 0, 0, "", "")
    /\ api_keys = << >>
    /\ seq = 0
    /\ api_usage_log = << >>
    /\ now = T0
    /\ env_key = ""
    /\ master_key_file = NoFile
    /\ instance = None
    /\ instance_lock = Free
    /\ objects = << >>
    /\ threads = [c \in Openers |-> NoConnection]
    /\ connection = None
    /\ connections = {}
    /\ research_jobs = << >>
    /\ files = << >>
    /\ trace = << >>

NextConnection ==
    \E c \in Openers :
        \/ CallGetConnection(c)
        \/ GcCheck(c)
        \/ GcConnect(c)
        \/ GcSetup(c)
        \/ GcReturn(c)

SpecConnection == InitConnection /\ [][NextConnection]_vars

-----------------------------------------------------------------------------
(* Claims about the store's connection *)

\* C31 (statement of the specification): whatever the interleaving of the
\* callers' first get_connection() calls, at most one connection is opened
\* and all callers that were handed a connection were handed the same one.
C31_SingleSharedConnection ==
    /\ Cardinality(connections) <= 1
    /\ \A c, d \in Openers :
           threads[c].got # None /\ threads[d].got # None
               => threads[c].got = threads[d].got

-----------------------------------------------------------------------------
(* The research job store (research_jobs.py) and the three research tools   *)
(* (server.py).  A row keeps the columns the tools read back; question,     *)
(* model and created_at are written once and never read by a tool.  A text  *)
(* is a sequence of characters, so that its length can be taken.            *)

ENDED_STATUSES == {"completed", "failed", "cancelled"}

\* the period after which the tools drop ended jobs
CLEANUP_DAYS == 30

NoError == ""
NoText == << >>

\* INSERT INTO research_jobs ... ON CONFLICT(interaction_id) DO UPDATE
create_job(jobs, interaction_id, output_path, status, t) ==
    LET row == [output_path |-> output_path,
                status |-> status,
                last_error |-> NoError,
                output_chars |-> 0,
                updated_at |-> CurrentTimestamp(t),
                saved_at |-> NULL]
    IN  IF interaction_id \in DOMAIN jobs
        THEN Update(jobs, interaction_id, row)
        ELSE Insert(jobs, interaction_id, row)

\* an UPDATE that also forgets that the output was saved
update_status_ClearsSaved(jobs, interaction_id, status, t) ==
    [i \in DOMAIN jobs |->
        IF i = interaction_id
        THEN [jobs[i] EXCEPT !.status = status, !.updated_at = CurrentTimestamp(t),
                             !.saved_at = NULL]
        ELSE jobs[i]]

\* UPDATE research_jobs SET status, updated_at WHERE interaction_id = ?
update_status(jobs, interaction_id, status, t) ==
    [i \in DOMAIN jobs |->
        IF i = interaction_id
        THEN [jobs[i] EXCEPT !.status = status, !.updated_at = CurrentTimestamp(t)]
        ELSE jobs[i]]

\* UPDATE research_jobs SET status, output_chars, last_error = NULL, saved_at,
\* updated_at WHERE interaction_id = ?
mark_saved(jobs, interaction_id, output_chars, status, t) ==
    [i \in DOMAIN jobs |->
        IF i = interaction_id
        THEN [jobs[i] EXCEPT !.status = status,
                             !.output_chars = output_chars,
                             !.last_error = NoError,
                             !.saved_at = CurrentTimestamp(t),
                             !.updated_at = CurrentTimestamp(t)]
        ELSE jobs[i]]

\* UPDATE research_jobs SET status, last_error, updated_at WHERE interaction_id = ?
set_error(jobs, interaction_id, error, status, t) ==
    [i \in DOMAIN jobs |->
        IF i = interaction_id
        THEN [jobs[i] EXCEPT !.status = status,
                             !.last_error = error,
                             !.updated_at = CurrentTimestamp(t)]
        ELSE jobs[i]]

\* UPDATE research_jobs SET last_error, updated_at WHERE interaction_id = ?
set_error_only(jobs, interaction_id, error, t) ==
    [i \in DOMAIN jobs |->
        IF i = interaction_id
        THEN [jobs[i] EXCEPT !.last_error = error,
                             !.updated_at = CurrentTimestamp(t)]
        ELSE jobs[i]]

\* a WHERE clause that also takes the jobs updated exactly N days ago
Expired_Inclusive(row, days, t) ==
    LET n == IF days > 1 THEN days ELSE 1
    IN  /\ row.status \in ENDED_STATUSES
        /\ row.updated_at <= CurrentTimestamp(t) - n * TicksPerDay

\* the WHERE clause of cleanup_old_jobs: status IN (...) AND
\* updated_at < datetime('now', '-N days'), N = max(1, int(days))
Expired(row, days, t) ==
    LET n == IF days > 1 THEN days ELSE 1
    IN  /\ row.status \in ENDED_STATUSES
        /\ row.updated_at < CurrentTimestamp(t) - n * TicksPerDay

\* DELETE FROM research_jobs WHERE ...: the rows left, and cursor.rowcount
cleanup_old_jobs(jobs, days, t) ==
    LET gone == {i \in DOMAIN jobs : Expired(jobs[i], days, t)}
    IN  [jobs |-> [i \in DOMAIN jobs \ gone |-> jobs[i]],
         rowcount |-> Cardinality(gone)]

-----------------------------------------------------------------------------
(* One upstream call made through get_gemini_client: select, call, report   *)
(* (gemini_client.py 21-37 and 189-279).  code is what the upstream         *)
(* answered: 200, or the failure code _report_key_failure derives.          *)

UpstreamCall(keys, log, code) ==
    LET reset == LazyReset(keys, now)
        available == AvailableKeys(reset, now)
    IN  IF available = << >>
        THEN \* get_key fell back on the environment; its reports are ignored
             [keys |-> reset, log |-> log, raised |-> env_key = ""]
        ELSE LET best == BestKey(reset, available)
             IN  IF code = 200
                 THEN [keys |-> Update(reset, best, SuccessUpdate(reset[best], now)),
                       log |-> Append(log, Event(best, 200, "success")),
                       raised |-> FALSE]
                 ELSE [keys |-> Update(reset, best, FailureUpdate(reset[best], code, now)),
                       log |-> Append(log, Event(best, code, ErrorType(code))),
                       raised |-> FALSE]

\* what the upstream may answer to a fetch or a start: an interaction with a
\* status and, once completed, its text; or a failure
RemoteStatuses == {"in_progress", "completed", "failed", "cancelled"}
Texts == {NoText, <<"a", "b">>}
CodesResearch == {429, 500}

Interaction(status, text) == [code |-> 200, status |-> status, text |-> text]
Failure(code) == [code |-> code, status |-> "", text |-> NoText]

Fetched ==
    {Interaction(status, NoText) : status \in RemoteStatuses \ {"completed"}}
    \cup {Interaction("completed", text) : text \in Texts}
    \cup {Failure(code) : code \in CodesResearch}

\* what the upstream may answer to a start: a running interaction, or a failure
Started ==
    {Interaction("in_progress", NoText)} \cup {Failure(code) : code \in CodesResearch}

\* what the upstream may answer to a cancel: the interaction, with or without
\* a status, or a failure
Cancelled ==
    {Interaction(status, NoText) : status \in {"cancelled", ""}}
    \cup {Failure(code) : code \in CodesResearch}

\* f"Error: Gemini interaction get failed - {error_str}" and its siblings
ErrorText(call, code) ==
    "Error: Gemini " \o call \o " failed - " \o (IF code = 429 THEN "429" ELSE "500")

\* the JSON the tools answer with
Answer(action, ok, interaction_id, status, saved, output_chars, error) ==
    [op |-> action, ok |-> ok, interaction_id |-> interaction_id, status |-> status,
     saved |-> saved, output_chars |-> output_chars, error |-> error]

\* the fields _json_result sends after re-reading the job
Latest(action, ok, jobs, interaction_id, error) ==
    Answer(action, ok, interaction_id, jobs[interaction_id].status,
           jobs[interaction_id].saved_at # NULL, jobs[interaction_id].output_chars, error)

JobIds == 1 .. MaxJobs
OutputPaths == {"a.md"}
\* the empty interaction id
Blank == 0

\* path.write_text(output): the file now holds output
WriteText(fs, path, output) ==
    [p \in DOMAIN fs \cup {path} |->
        IF p = path
        THEN [text |-> output,
              writes |-> IF path \in DOMAIN fs THEN fs[path].writes + 1 ELSE 1]
        ELSE fs[p]]

-----------------------------------------------------------------------------
(* The research tools.  Each computes the state it leaves and its answer;   *)
(* the action below stores them.                                            *)

Left(jobs, keys, log, fs, answer) ==
    [jobs |-> jobs, keys |-> keys, log |-> log, files |-> fs, ret |-> answer]

\* research_gemini_start: started is the upstream's answer, id the
\* interaction id it carries (Blank when it carries none)
research_gemini_start(question, output_path, started, id) ==
    LET cleaned == cleanup_old_jobs(research_jobs, CLEANUP_DAYS, now).jobs
        code == IF started.code = 200 /\ id = Blank THEN 500 ELSE started.code
        call == UpstreamCall(api_keys, api_usage_log, code)
    IN  IF question = ""
        THEN Left(cleaned, api_keys, api_usage_log, files,
                  Answer("start", FALSE, Blank, "", FALSE, 0, "Question cannot be empty"))
        ELSE IF output_path = ""
        THEN Left(cleaned, api_keys, api_usage_log, files,
                  Answer("start", FALSE, Blank, "", FALSE, 0, "output_path cannot be empty"))
        ELSE IF call.raised
        THEN Left(cleaned, call.keys, call.log, files,
                  Answer("start", FALSE, Blank, "failed", FALSE, 0, "No API key available"))
        ELSE IF started.code # 200
        THEN Left(cleaned, call.keys, call.log, files,
                  Answer("start", FALSE, Blank, "failed", FALSE, 0,
                         ErrorText("Deep Research API call", code)))
        ELSE IF id = Blank
        THEN Left(cleaned, call.keys, call.log, files,
                  Answer("start", FALSE, Blank, "failed", FALSE, 0,
                         "Error: Deep Research did not return an interaction id."))
        ELSE Left(create_job(cleaned, id, output_path, started.status, now),
                  call.keys, call.log, files,
                  Answer("start", TRUE, id, started.status, FALSE, 0, NoError))

\* research_gemini_status: fetched is the upstream's answer, writable whether
\* path.write_text succeeds
research_gemini_status(interaction_id, fetched, writable) ==
    LET cleaned == cleanup_old_jobs(research_jobs, CLEANUP_DAYS, now).jobs
        call == UpstreamCall(api_keys, api_usage_log, fetched.code)
    IN  IF interaction_id = Blank
        THEN Left(cleaned, api_keys, api_usage_log, files,
                  Answer("status", FALSE, Blank, "invalid", FALSE, 0,
                         "interaction_id cannot be empty"))
        ELSE IF interaction_id \notin DOMAIN cleaned
        THEN Left(cleaned, api_keys, api_usage_log, files,
                  Answer("status", FALSE, interaction_id, "not_found", FALSE, 0,
                         "Job not found for interaction_id"))
        ELSE
        LET job == cleaned[interaction_id]
            saved == job.saved_at # NULL
            polled == update_status(cleaned, interaction_id, fetched.status, now)
            error == IF fetched.text = NoText
                     THEN "Deep Research completed but returned empty output."
                     ELSE "write failed"
        IN  IF call.raised
            THEN Left(cleaned, call.keys, call.log, files,
                      Answer("status", FALSE, interaction_id, "failed", FALSE, 0,
                             "No API key available"))
            ELSE IF fetched.code # 200
            THEN Left(set_error(cleaned, interaction_id,
                                ErrorText("interaction get", fetched.code), "failed", now),
                      call.keys, call.log, files,
                      Answer("status", FALSE, interaction_id, "failed", saved,
                             job.output_chars, ErrorText("interaction get", fetched.code)))
            ELSE IF fetched.status = "completed" /\ ~saved
                    /\ (fetched.text = NoText \/ ~writable)
            THEN Left(set_error(polled, interaction_id, error, "failed", now),
                      call.keys, call.log, files,
                      Answer("status", FALSE, interaction_id, "failed", FALSE,
                             job.output_chars, error))
            ELSE IF fetched.status = "completed" /\ ~saved
            THEN LET marked == mark_saved(polled, interaction_id, Len(fetched.text),
                                          "completed", now)
                 IN  Left(marked, call.keys, call.log,
                          WriteText(files, job.output_path, fetched.text),
                          Latest("status", TRUE, marked, interaction_id, NoError))
            ELSE IF fetched.status = "failed"
            THEN Left(set_error(polled, interaction_id, "Gemini interaction failed.",
                                "failed", now),
                      call.keys, call.log, files,
                      Answer("status", FALSE, interaction_id, "failed", saved,
                             job.output_chars, "Gemini interaction failed."))
            ELSE Left(polled, call.keys, call.log, files,
                      Latest("status", TRUE, polled, interaction_id, NoError))

\* research_gemini_cancel: cancelled is the upstream's answer to the cancel,
\* fetched its answer to the fetch that follows a failed cancel
research_gemini_cancel(interaction_id, cancelled, fetched) ==
    LET call == UpstreamCall(api_keys, api_usage_log, cancelled.code)
        check == UpstreamCall(call.keys, call.log, fetched.code)
        result == ErrorText("interaction cancel", cancelled.code)
        final_status == IF cancelled.status = "" THEN "cancelled" ELSE cancelled.status
    IN  IF interaction_id = Blank
        THEN Left(research_jobs, api_keys, api_usage_log, files,
                  Answer("cancel", FALSE, Blank, "invalid", FALSE, 0,
                         "interaction_id cannot be empty"))
        ELSE IF interaction_id \notin DOMAIN research_jobs
        THEN Left(research_jobs, api_keys, api_usage_log, files,
                  Answer("cancel", FALSE, interaction_id, "not_found", FALSE, 0,
                         "Job not found for interaction_id"))
        ELSE IF call.raised
        THEN Left(research_jobs, call.keys, call.log, files,
                  Answer("cancel", FALSE, interaction_id, "failed", FALSE, 0,
                         "No API key available"))
        ELSE IF cancelled.code = 200
        THEN LET done == update_status(research_jobs, interaction_id, final_status, now)
             IN  Left(done, call.keys, call.log, files,
                      Latest("cancel", TRUE, done, interaction_id, NoError))
        ELSE IF check.raised
        THEN Left(research_jobs, check.keys, check.log, files,
                  Answer("cancel", FALSE, interaction_id, "failed", FALSE, 0,
                         "No API key available"))
        ELSE IF fetched.code = 200 /\ fetched.status \in {"completed", "cancelled"}
        THEN LET done == update_status(research_jobs, interaction_id, fetched.status, now)
             IN  Left(done, check.keys, check.log, files,
                      Latest("cancel", TRUE, done, interaction_id, NoError))
        ELSE LET kept == set_error_only(research_jobs, interaction_id, result, now)
             IN  Left(kept, check.keys, check.log, files,
                      Latest("cancel", FALSE, kept, interaction_id, result))

\* the tool ran and left its state behind
Store(left) ==
    /\ research_jobs' = left.jobs
    /\ api_keys' = left.keys
    /\ api_usage_log' = left.log
    /\ files' = left.files
    /\ ret' = left.ret
    /\ UNCHANGED <<seq, now, env_key, master_key_file, connection, connections, trace>>
    /\ UNCHANGED concurrent

\* the question and the output path given to research_gemini_start
Requests == {<<"", "a.md">>, <<"q", "">>} \cup {<<"q", path>> : path \in OutputPaths}

\* the fetch research_gemini_cancel makes after a failed cancel, and only then
NotFetched == Failure(0)
FetchedAfter(cancelled) == IF cancelled.code = 200 THEN {NotFetched} ELSE Fetched

\* path.write_text is reached for a completed interaction with a text
Writable(fetched) ==
    IF fetched.status = "completed" /\ fetched.text # NoText THEN BOOLEAN ELSE {TRUE}

ResearchStart(question, output_path, started, id) ==
    /\ Len(api_usage_log) < MaxLogJobs
    /\ id \notin DOMAIN research_jobs
    /\ Store(research_gemini_start(question, output_path, started, id))

ResearchStatus(interaction_id, fetched, writable) ==
    /\ Len(api_usage_log) < MaxLogJobs
    /\ Store(research_gemini_status(interaction_id, fetched, writable))

ResearchCancel(interaction_id, cancelled, fetched) ==
    /\ Len(api_usage_log) + 1 < MaxLogJobs
    /\ Store(research_gemini_cancel(interaction_id, cancelled, fetched))

\* cleanup_old_jobs(days), called on its own
CleanupOldJobs(days) ==
    LET cleaned == cleanup_old_jobs(research_jobs, days, now)
    IN  /\ research_jobs' = cleaned.jobs
        /\ ret' = [op |-> "cleanup", rowcount |-> cleaned.rowcount]
        /\ UNCHANGED <<api_keys, seq, api_usage_log, now, env_key, master_key_file,
                       connection, connections, files, trace>>
        /\ UNCHANGED concurrent

\* the instants at which the tools are called: one day after the first, and
\* around CLEANUP_DAYS days after it
ResearchInstants ==
    { T0,
      T0 + TicksPerDay,
      T0 + CLEANUP_DAYS * TicksPerDay,
      T0 + CLEANUP_DAYS * TicksPerDay + TicksPerSecond }

DaysInputs == {0, 1, CLEANUP_DAYS}

\* one stored credential without quotas, no job
InitResearch ==
    /\ OneCaller
    /\ master_key_file = File(GenerateKey("server"), "0600")
    /\ api_keys = Insert(<<>>, 1, NewRow("s1", "n", 0, 0, T0))
    /\ seq = 1
    /\ api_usage_log = <<>>
    /\ now = T0
    /\ env_key = ""
    /\ OnlyKeyManagerUsed
    /\ ret = Ret("add_key", 1, 0, "ok", "")

NextResearch ==
    \/ \E request \in Requests, started \in Started, id \in JobIds \cup {Blank} :
           ResearchStart(request[1], request[2], started, id)
    \/ \E interaction_id \in JobIds \cup {Blank}, fetched \in Fetched :
           \E writable \in Writable(fetched) :
               ResearchStatus(interaction_id, fetched, writable)
    \/ \E interaction_id \in JobIds \cup {Blank}, cancelled \in Cancelled :
           \E fetched \in FetchedAfter(cancelled) :
               ResearchCancel(interaction_id, cancelled, fetched)
    \/ \E days \in DaysInputs : CleanupOldJobs(days)
    \/ \E t \in ResearchInstants : Tick(t)

SpecResearch == InitResearch /\ [][NextResearch]_vars

-----------------------------------------------------------------------------
(* Claims about the research tools *)

\* the job is stored and the clean-up the tool starts with leaves it there
Kept(interaction_id) ==
    /\ interaction_id \in DOMAIN research_jobs
    /\ ~Expired(research_jobs[interaction_id], CLEANUP_DAYS, now)

\* the tool's upstream call is made and answered with an interaction
Observes(fetched) ==
    /\ fetched.code = 200
    /\ ~UpstreamCall(api_keys, api_usage_log, fetched.code).raised

\* the poll stored the text and recorded it
SavesOutput(interaction_id, text) ==
    LET path == research_jobs[interaction_id].output_path
    IN  /\ path \in DOMAIN files'
        /\ files'[path].text = text
        /\ research_jobs'[interaction_id].status = "completed"
        /\ research_jobs'[interaction_id].saved_at # NULL
        /\ research_jobs'[interaction_id].output_chars = Len(text)
        /\ ret'.ok /\ ret'.status = "completed" /\ ret'.saved
        /\ ret'.output_chars = Len(text)

\* the poll answered from what was saved and left the file alone
AnswersFromSaved(interaction_id) ==
    /\ ret'.ok /\ ret'.status = "completed" /\ ret'.saved
    /\ ret'.output_chars = research_jobs[interaction_id].output_chars
    /\ files' = files
    /\ research_jobs'[interaction_id].status = "completed"
    /\ research_jobs'[interaction_id].saved_at = research_jobs[interaction_id].saved_at
    /\ research_jobs'[interaction_id].output_chars
           = research_jobs[interaction_id].output_chars

\* C32 (statement of the specification): a poll that observes the remote
\* state completed for an unsaved job writes the output file and records
\* status completed, saved and output_chars; a poll that observes completed
\* for a saved job answers ok with status completed, saved and the same
\* output_chars, and neither rewrites the file nor clears saved_at.
C32_StatusIdempotentOnceSaved ==
    [][\A interaction_id \in JobIds, fetched \in Fetched, writable \in BOOLEAN :
          /\ ret'.op = "status"
          /\ ret'.interaction_id = interaction_id
          /\ fetched.status = "completed"
          /\ Kept(interaction_id)
          /\ Observes(fetched)
          /\ ResearchStatus(interaction_id, fetched, writable)
          => IF research_jobs[interaction_id].saved_at = NULL
             THEN SavesOutput(interaction_id, fetched.text)
             ELSE AnswersFromSaved(interaction_id)]_vars

\* C32 (amended): the same, for the unsaved job only when the completed
\* interaction carries a text and the file can be written.
C32_StatusIdempotentOnceTextSaved ==
    [][\A interaction_id \in JobIds, fetched \in Fetched, writable \in BOOLEAN :
          /\ ret'.op = "status"
          /\ ret'.interaction_id = interaction_id
          /\ fetched.status = "completed"
          /\ Kept(interaction_id)
          /\ Observes(fetched)
          /\ ResearchStatus(interaction_id, fetched, writable)
          => IF research_jobs[interaction_id].saved_at = NULL
             THEN fetched.text # NoText /\ writable
                      => SavesOutput(interaction_id, fetched.text)
             ELSE AnswersFromSaved(interaction_id)]_vars

\* a poll on a later day found the saved job completed again: the file was
\* written once
C32_Witness ==
    \E interaction_id \in DOMAIN research_jobs :
        LET job == research_jobs[interaction_id]
        IN  /\ ret.op = "status" /\ ret.ok /\ ret.status = "completed" /\ ret.saved
            /\ ret.interaction_id = interaction_id
            /\ job.saved_at # NULL
            /\ job.updated_at > job.saved_at
            /\ files[job.output_path].writes = 1
            /\ ret.output_chars = Len(files[job.output_path].text)

\* the cancel was sent and the upstream refused it
CancelFailed(cancelled) ==
    /\ cancelled.code # 200
    /\ ~UpstreamCall(api_keys, api_usage_log, cancelled.code).raised

\* the fetch after the failed cancel showed the interaction ended
Confirmed(cancelled, fetched) ==
    LET call == UpstreamCall(api_keys, api_usage_log, cancelled.code)
    IN  /\ ~UpstreamCall(call.keys, call.log, fetched.code).raised
        /\ fetched.code = 200
        /\ fetched.status \in {"completed", "cancelled"}

\* C33 (statement of the specification): when the remote cancel fails and the
\* remote state cannot be confirmed completed or cancelled, research_gemini_cancel
\* leaves the stored status as it was, records only last_error, and answers
\* ok = false with the unchanged status.
C33_UnconfirmedCancelKeepsStatus ==
    [][\A interaction_id \in JobIds, cancelled \in Cancelled, fetched \in Fetched :
          /\ ret'.op = "cancel"
          /\ interaction_id \in DOMAIN research_jobs
          /\ CancelFailed(cancelled)
          /\ ~Confirmed(cancelled, fetched)
          /\ ResearchCancel(interaction_id, cancelled, fetched)
          => /\ research_jobs'[interaction_id] =
                    [research_jobs[interaction_id] EXCEPT
                        !.last_error = ErrorText("interaction cancel", cancelled.code),
                        !.updated_at = CurrentTimestamp(now)]
             /\ ~ret'.ok
             /\ ret'.status = research_jobs[interaction_id].status]_vars

\* how long ago the row was updated, in whole seconds
SecondsSinceUpdate(row) == SqlDatetime(now) - SqlDatetime(row.updated_at)

SecondsPerDay == 24 * 60 * 60

\* the jobs the claim says cleanup_old_jobs(days) deletes
EndedAndOld(days) ==
    {i \in DOMAIN research_jobs :
        /\ research_jobs[i].status \in {"completed", "failed", "cancelled"}
        /\ SecondsSinceUpdate(research_jobs[i])
               > (IF days < 1 THEN 1 ELSE days) * SecondsPerDay}

\* C34: cleanup_old_jobs(days) deletes exactly the jobs whose status is
\* completed, failed or cancelled and whose updated_at is more than
\* max(1, days) days old, returns how many they are, and leaves every other
\* job as it was.
C34_CleanupDeletesEndedAndOld ==
    [][\A days \in DaysInputs :
          ret'.op = "cleanup" /\ CleanupOldJobs(days)
          => /\ DOMAIN research_jobs' = DOMAIN research_jobs \ EndedAndOld(days)
             /\ \A i \in DOMAIN research_jobs' : research_jobs'[i] = research_jobs[i]
             /\ ret'.rowcount = Cardinality(EndedAndOld(days))]_vars

\* a cleanup deleted a job and kept another one, as old but still running
C34_Witness ==
    /\ ret.op = "cleanup"
    /\ ret.rowcount = 1
    /\ \E i \in DOMAIN research_jobs :
           /\ research_jobs[i].status = "in_progress"
           /\ SecondsSinceUpdate(research_jobs[i]) > CLEANUP_DAYS * SecondsPerDay

\* C40 (statement of the specification): a job whose output was saved and whose
\* status is completed keeps that status, its saved_at and its output_chars
\* through every research_gemini_status and research_gemini_cancel call that
\* finds it, whatever the upstream answers.
C40_SavedJobStaysCompleted ==
    [][\A i \in DOMAIN research_jobs :
          /\ ret'.op \in {"status", "cancel"}
          /\ research_jobs[i].saved_at # NULL
          /\ research_jobs[i].status = "completed"
          /\ i \in DOMAIN research_jobs'
          => /\ research_jobs'[i].status = "completed"
             /\ research_jobs'[i].saved_at = research_jobs[i].saved_at
             /\ research_jobs'[i].output_chars = research_jobs[i].output_chars]_vars

\* the part of C40 the tools keep: saved_at and output_chars are never cleared
C40_SavedOutputKept ==
    [][\A i \in DOMAIN research_jobs :
          /\ ret'.op \in {"status", "cancel"}
          /\ research_jobs[i].saved_at # NULL
          /\ i \in DOMAIN research_jobs'
          => /\ research_jobs'[i].saved_at = research_jobs[i].saved_at
             /\ research_jobs'[i].output_chars = research_jobs[i].output_chars]_vars

-----------------------------------------------------------------------------
(* The upstream-call wrapper (gemini_client.py): query_gemini and the       *)
(* deep-research calls, run by coroutines of one event loop.  A coroutine   *)
(* gives way at its await, so the steps below are what runs between two     *)
(* awaits.  trace[c] lists what c's current wrapper call did: the           *)
(* credentials get_key handed out, the requests sent, the reports made.     *)

GEMINI_PRO == "gemini-3-pro-preview"
GEMINI_FLASH == "gemini-3-flash-preview"
GEMINI_FALLBACK == GEMINI_FLASH

Coroutines == 1 .. MaxCoroutines

NotCalling == [pc |-> "idle", key_id |-> None, models_to_try |-> << >>]

Handed(key_id) == [op |-> "select", key_id |-> key_id, code |-> 0]
Sent(key_id) == [op |-> "call", key_id |-> key_id, code |-> 0]
Reported(key_id, code) == [op |-> "report", key_id |-> key_id, code |-> code]

\* get_gemini_client(): manager.get_key(); ValueError when it hands out nothing.
\* The coroutine goes to position p with the credential, or stays idle.
GetGeminiClient(c, p, models) ==
    LET keys == LazyReset(api_keys, now)
        available == AvailableKeys(keys, now)
        key_id == IF available # << >> THEN BestKey(keys, available)
                  ELSE IF env_key # "" THEN -1 ELSE None
    IN  /\ api_keys' = keys
        /\ IF key_id = None
           THEN /\ Become(c, NotCalling)
                /\ trace' = [trace EXCEPT ![c] = << >>]
           ELSE /\ Become(c, [pc |-> p, key_id |-> key_id, models_to_try |-> models])
                /\ trace' = [trace EXCEPT ![c] = <<Handed(key_id)>>]
        /\ UNCHANGED <<seq, api_usage_log, now, env_key, ret, master_key_file,
                       instance, instance_lock, objects,
                       connection, connections, research_jobs, files>>

\* manager.report_success(key_id) / manager.report_failure(key_id, code), and
\* the coroutine goes on as rec
Report(c, code, rec) ==
    LET key_id == threads[c].key_id
    IN  /\ IF IsEnvKeyId(key_id) \/ key_id \notin Ids
           THEN UNCHANGED <<api_keys, api_usage_log>>
           ELSE IF code = 200
           THEN /\ api_keys' = Update(api_keys, key_id, SuccessUpdate(api_keys[key_id], now))
                /\ api_usage_log' = Append(api_usage_log, Event(key_id, 200, "success"))
           ELSE /\ api_keys' =
                      Update(api_keys, key_id, FailureUpdate(api_keys[key_id], code, now))
                /\ api_usage_log' =
                      Append(api_usage_log, Event(key_id, code, ErrorType(code)))
        /\ trace' = [trace EXCEPT ![c] = Append(@, Reported(key_id, code))]
        /\ Become(c, rec)
        /\ UNCHANGED <<seq, now, env_key, ret, master_key_file,
                       instance, instance_lock, objects,
                       connection, connections, research_jobs, files>>

\* the coroutine sends its request and awaits the answer
Send(c, p) ==
    /\ trace' = [trace EXCEPT ![c] = Append(@, Sent(threads[c].key_id))]
    /\ Goto(c, p)
    /\ UNCHANGED <<api_keys, seq, api_usage_log, now, env_key, ret, master_key_file,
                   instance, instance_lock, objects,
                   connection, connections, research_jobs, files>>

\* query_gemini(model): get_gemini_client() and the list of models to try
CallQueryGemini(c, model) ==
    /\ pc(c) = "idle"
    /\ Len(api_usage_log) < MaxLogWrapper
    /\ GetGeminiClient(c, "qg_call",
                       IF model # GEMINI_FALLBACK THEN <<model, GEMINI_FALLBACK>>
                       ELSE <<model>>)

\* response = await _call_gemini(client, current_model, question, config)
QgCall(c) ==
    /\ pc(c) = "qg_call"
    /\ Send(c, "qg_await")

\* the answer arrives: a text, an empty response, or an exception whose message
\* gives the failure code
QgAnswers == {"text", "empty", "429", "401", "500"}

QgAnswer(c, answer) ==
    /\ pc(c) = "qg_await"
    /\ IF answer = "text"
       THEN Report(c, 200, [threads[c] EXCEPT !.pc = "idle"])
       ELSE IF answer = "empty"
       THEN \* return "Error: Received empty response from Gemini API."
            /\ Goto(c, "idle")
            /\ UNCHANGED <<api_keys, seq, api_usage_log, now, env_key, ret,
                           master_key_file, instance, instance_lock, objects, tools>>
       ELSE IF answer = "429"
       THEN \* report_failure(key_id, 429); continue with the next model, if any
            Report(c, 429,
                   IF Len(threads[c].models_to_try) > 1
                   THEN [threads[c] EXCEPT !.pc = "qg_call",
                                           !.models_to_try = Tail(@)]
                   ELSE [threads[c] EXCEPT !.pc = "idle"])
       ELSE Report(c, IF answer = "401" THEN 401 ELSE 500,
                   [threads[c] EXCEPT !.pc = "idle"])

\* start_gemini_deep_research, get_gemini_interaction, cancel_gemini_interaction:
\* get_gemini_client(), one request, one report
CallDeepResearch(c) ==
    /\ pc(c) = "idle"
    /\ Len(api_usage_log) < MaxLogWrapper
    /\ GetGeminiClient(c, "dr_call", << >>)

DrCall(c) ==
    /\ pc(c) = "dr_call"
    /\ Send(c, "dr_await")

DrCodes == {200, 429, 500}

DrAnswer(c, code) ==
    /\ pc(c) = "dr_await"
    /\ Report(c, code, [threads[c] EXCEPT !.pc = "idle"])

Models == {GEMINI_PRO, GEMINI_FLASH}

\* two stored credentials without quotas; no coroutine has called the wrapper
InitWrapper ==
    /\ master_key_file = File(GenerateKey("server"), "0600")
    /\ api_keys = Insert(Insert(<<>>, 1, NewRow("s1", "n", 0, 0, T0)),
                         2, NewRow("s2", "n", 0, 0, T0))
    /\ seq = 2
    /\ api_usage_log = <<>>
    /\ now = T0
    /\ env_key = ""
    /\ ret = Ret("add_key", 2, 0, "ok", "")
    /\ instance = 1
    /\ instance_lock = Free
    /\ objects = (1 :> ManagerAttributes)
    /\ threads = [c \in Coroutines |-> NotCalling]
    /\ connection = 1
    /\ connections = {1}
    /\ research_jobs = << >>
    /\ files = << >>
    /\ trace = [c \in Coroutines |-> << >>]

NextWrapper ==
    \E c \in Coroutines :
        \/ \E model \in Models : CallQueryGemini(c, model)
        \/ QgCall(c)
        \/ \E answer \in QgAnswers : QgAnswer(c, answer)
        \/ CallDeepResearch(c)
        \/ DrCall(c)
        \/ \E code \in DrCodes : DrAnswer(c, code)

SpecWrapper == InitWrapper /\ [][NextWrapper]_vars

-----------------------------------------------------------------------------
(* Claims about the upstream-call wrapper *)

\* the order the specification prescribes: select, call, report, and again
Protocol == <<"select", "call", "report">>

\* C35 (statement of the specification): in a wrapper call every request sent
\* upstream comes right after a select of its own and is followed by exactly
\* one report for the selected credential: what the wrapper did reads
\* select, call, report, select, call, report, ..., and nothing is missing
\* when the wrapper returns.
C35_SelectCallReport ==
    \A c \in DOMAIN trace :
        /\ \A i \in 1 .. Len(trace[c]) :
               /\ trace[c][i].op = Protocol[((i - 1) % 3) + 1]
               /\ trace[c][i].key_id = trace[c][i - ((i - 1) % 3)].key_id
        /\ pc(c) = "idle" => Len(trace[c]) % 3 = 0

-----------------------------------------------------------------------------
(* The reports of SpecReports made while another thread of the process      *)
(* selects: the threads share the manager and, through it, the one          *)
(* connection, so a statement sees what the statements before it wrote,     *)
(* committed or not.  The credential starts one failure below the circuit   *)
(* breaker's threshold.                                                     *)

\* the failures reported before the first state
FailuresBefore == [i \in 1 .. MAX_CONSECUTIVE_FAILURES - 1 |-> 500]

InitTripping ==
    /\ master_key_file = File(GenerateKey("server"), "0600")
    /\ api_keys = Insert(<<>>, 1, ApplyFailures(NewRow("s1", "n", 0, 0, T0),
                                                FailuresBefore, T0))
    /\ seq = 1
    /\ api_usage_log = [i \in 1 .. Len(FailuresBefore) |->
                            Event(1, FailuresBefore[i], ErrorType(FailuresBefore[i]))]
    /\ now = T0
    /\ env_key = ""
    /\ OnlyKeyManagerUsed
    /\ ret = Ret("report_failure", 1, 500, "ok", "")
    /\ instance = 1
    /\ instance_lock = Free
    /\ objects = (1 :> ManagerAttributes)
    /\ threads = [c \in Reporters |-> IdleReporter]

NextTripping ==
    \/ NextReports
    \/ GetKey(now)

SpecTripping == InitTripping /\ [][NextTripping]_vars

-----------------------------------------------------------------------------
(* Claims about the circuit breaker seen by concurrent callers *)

\* C36 (statement of the specification): in every state another caller can
\* observe, the states between the statements of a concurrent report_failure
\* included, an active credential has fewer than MAX_CONSECUTIVE_FAILURES
\* consecutive failures, and get_key hands out no credential that has that
\* many.
C36_ActiveBelowThreshold ==
    /\ \A id \in Ids :
           api_keys[id].status = STATUS_ACTIVE
               => api_keys[id].consecutive_failures < MAX_CONSECUTIVE_FAILURES
    /\ ret.op = "get_key" /\ ret.res = "key"
           => api_keys[ret.id].consecutive_failures < MAX_CONSECUTIVE_FAILURES

\* the part of C36 the code keeps: between calls, when no thread is inside a
\* report, an active credential is below the threshold
C36_ActiveBelowThresholdBetweenCalls ==
    (\A c \in DOMAIN threads : pc(c) = "idle")
        => \A id \in Ids :
               api_keys[id].status = STATUS_ACTIVE
                   => api_keys[id].consecutive_failures < MAX_CONSECUTIVE_FAILURES

-----------------------------------------------------------------------------
(* The day after: the credential was used on the first day, the clock has   *)
(* passed midnight, and nothing has read the store since.  Every call of    *)
(* this specification is made on the second day.                            *)

\* the successes reported on the first day, at T0
UsedYesterday == 1

\* the instants of the second day at which the clock is read
MidnightInstants == {t + TicksPerDay : t \in Instants}

InitMidnight ==
    /\ OneCaller
    /\ master_key_file = File(GenerateKey("server"), "0600")
    /\ api_keys = Insert(<<>>, 1, ApplySuccesses(NewRow("s1", "n", 0, 0, T0),
                                                 UsedYesterday, T0))
    /\ seq = 1
    /\ api_usage_log = [i \in 1 .. UsedYesterday |-> Event(1, 200, "success")]
    /\ now = T0 + TicksPerDay
    /\ env_key = ""
    /\ OnlyKeyManagerUsed
    /\ ret = Ret("tick", 0, 0, "", "")

NextMidnight ==
    \/ \E t2 \in MidnightInstants : GetKey(t2)
    \/ ListKeys
    \/ Len(api_usage_log) < UsedYesterday + MaxLogMidnight /\ ReportSuccess(1)
    \/ \E code \in CodesCalendar :
          Len(api_usage_log) < UsedYesterday + MaxLogMidnight /\ ReportFailure(1, code)
    \/ \E t \in MidnightInstants : Tick(t)

SpecMidnight == InitMidnight /\ [][NextMidnight]_vars

-----------------------------------------------------------------------------
(* Claims about the counters *)

\* the successes recorded for the credential on the second day
SuccessesToday(id) ==
    Cardinality({i \in 1 .. Len(api_usage_log) :
                    /\ api_usage_log[i].key_id = id
                    /\ api_usage_log[i].status_code = 200}) - UsedYesterday

\* C37 (statement of the specification): after any get_key or list_keys made on
\* a calendar day, the daily usage counter of each credential is at most the
\* number of successes recorded for it on that day: usage of the day before is
\* not carried over, also when a report for a call selected the day before
\* arrives before the day's first read.
C37_DailyUsageIsOfToday ==
    ret.op \in LazyResetOps
        => \A id \in Ids : api_keys[id].daily_usage <= SuccessesToday(id)

\* the part of C37 the code keeps: when the day's first call is a read, the
\* counter is cleared
C37_FirstReadClears ==
    [][Len(api_usage_log) = UsedYesterday /\ ret'.op \in LazyResetOps
          => \A id \in Ids : api_keys'[id].daily_usage = 0]_vars

\* the counters of a row are ordered and none is negative
CountersOrdered(row) ==
    /\ row.total_usage >= row.usage_count
    /\ row.total_usage >= row.daily_usage
    /\ row.usage_count >= 0
    /\ row.daily_usage >= 0
    /\ row.total_usage >= 0
    /\ row.consecutive_failures >= 0

\* C38: the lifetime usage counter of a credential never decreases, no reset
\* touches it, and it is at least the monthly and the daily counter; the
\* three usage counters and the consecutive-failure counter are never
\* negative.
C38_LifetimeCounterMonotonic ==
    /\ [](\A id \in Ids : CountersOrdered(api_keys[id]))
    /\ [][\A id \in Ids \cap DOMAIN api_keys' :
             /\ api_keys'[id].total_usage >= api_keys[id].total_usage
             /\ ret'.op \in LazyResetOps
                    => api_keys'[id].total_usage = api_keys[id].total_usage]_vars

\* a read in a later month cleared the monthly and the daily counter of a
\* credential used twice, and left its lifetime counter at two
C38_Witness ==
    /\ ret.op \in LazyResetOps
    /\ SqlMonth(now) > SqlMonth(T0)
    /\ 1 \in Ids
    /\ api_keys[1].total_usage = 2
    /\ api_keys[1].usage_count = 0
    /\ api_keys[1].daily_usage = 0

-----------------------------------------------------------------------------
(* Claims about the ratio list_keys reports *)

\* the ratio of a listed record, in ten-thousandths, is the ratio get_key ranks
\* the row by
SameRatio(record, row) ==
    record.usage_ratio * usage_ratio(row)[2] = 10000 * usage_ratio(row)[1]

\* the listed records of the credentials get_key may hand out
ListedAvailable(keys, t) ==
    {i \in 1 .. Len(Listing(keys)) : Available(keys[Listing(keys)[i].id], t)}

\* the record that comes first when the list is ordered by reported ratio,
\* then by id
FirstByListedRatio(keys, t) ==
    LET list == Listing(keys)
    IN  CHOOSE i \in ListedAvailable(keys, t) :
            \A j \in ListedAvailable(keys, t) :
                \/ list[i].usage_ratio < list[j].usage_ratio
                \/ list[i].usage_ratio = list[j].usage_ratio /\ list[i].id <= list[j].id

\* C39 (statement of the specification): the ratio list_keys reports for a
\* credential is the ratio get_key ranks it by, with or without a monthly
\* quota, so the credential get_key returns is the available one that comes
\* first when the list is ordered by reported ratio, then id.
C39_ListedRatioPredictsSelect ==
    [][ret'.op = "get_key" /\ ret'.res = "key"
          => LET list == Listing(api_keys')
             IN  /\ \A i \in 1 .. Len(list) : SameRatio(list[i], api_keys'[list[i].id])
                 /\ ret'.id = list[FirstByListedRatio(api_keys', now')].id]_vars

\* the part of C39 the code keeps: a credential with a monthly quota whose
\* ratio is a whole number of ten-thousandths is listed with that ratio
C39_ListedRatioOfQuotaBound ==
    \A id \in Ids :
        /\ api_keys[id].monthly_limit > 0
        /\ (10000 * api_keys[id].usage_count) % api_keys[id].monthly_limit = 0
        => SameRatio(ListedRecord(id, api_keys[id]), api_keys[id])

====
